---- MODULE Spec2Model ----
(***************************************************************************)
(* Model of the Apple annual reports QA backend: the year registry         *)
(* (QASystem.vector_stores), the persisted per-year vector databases, the  *)
(* data directory, and the request handlers that build, load and query     *)
(* them, together with the confidence scorer as a pure function.           *)
(***************************************************************************)
EXTENDS Integers, Sequences, FiniteSets, TLC

VARIABLES
    dataDir,        \* upload_directory: year -> document found by get_pdf_paths:
                    \* its chunks, 0 for a file that yields no document (a .pdf
                    \* without a page of text, a blank or unreadable .txt),
                    \* NoChunks, NoFile
    vectorDb,       \* persisted vector databases: year -> content of vector_db_<year>
    vector_stores,  \* QASystem.vector_stores: year -> in-memory index
    startup,        \* position of QASystem.__init__ in available_years
    h,              \* per request slot: the handler's position and locals
    lastBuilt,      \* years built by the previous non-forced initialize_data call
    scoreIn,        \* arguments handed to the confidence scorer
    scoreOut,       \* what the confidence scorer returned
    splitter        \* a RecursiveCharacterTextSplitter at work on one document

vars == <<dataDir, vectorDb, vector_stores, startup, h, lastBuilt, scoreIn, scoreOut, splitter>>

----------------------------------------------------------------------------
(* Bounds of the model *)

NumReqs == 2        \* request slots (connections the server holds at once)
SmallDoc == 2       \* chunks of a short document (fewer than max_chunks_per_query)
LargeDoc == 6       \* chunks of a long document (more than max_chunks_per_query)
MaxQuery == 0       \* query embeddings are the positions 0..MaxQuery
Scale == 10         \* scores and distances are integers in units of 1/Scale
MaxLen == 5         \* longest score list handed to the scorer on its own
MaxNum == 6         \* largest num_chunks handed to the scorer on its own

(* Program constants *)

chunk_size == 1000
chunk_overlap == 200
max_chunks_per_query == 5
FirstYear == 2021
LastYear == 2023

Years == FirstYear..LastYear
available_years == [i \in 1..(LastYear - FirstYear + 1) |-> FirstYear + i - 1]
Reqs == 1..NumReqs

NoFile == -1        \* no .pdf/.txt file of that year in the data directory
NoChunks == -3      \* a .txt file whose text is not blank and is blank once cleaned
NoIndex == -1       \* no vector_db_<year> path / no registry key
Corrupt == -2       \* a vector_db_<year> path that load_local cannot read

Indexes == 1..(LargeDoc + 1)    \* an index is identified by its number of vectors

Min(a, b) == IF a <= b THEN a ELSE b
Max(a, b) == IF a >= b THEN a ELSE b

----------------------------------------------------------------------------
(* Exact rationals, standing for Python floats *)

Abs(x) == IF x < 0 THEN -x ELSE x

RECURSIVE GCD(_, _)
GCD(a, b) == IF b = 0 THEN a ELSE GCD(b, a % b)

R(n, d) ==
    LET g == GCD(Abs(n), d)
    IN  [num |-> n \div g, den |-> d \div g]

RAdd(a, b) == R(a.num * b.den + b.num * a.den, a.den * b.den)
RMul(a, b) == R(a.num * b.num, a.den * b.den)
RLe(a, b) == a.num * b.den <= b.num * a.den
RMin(a, b) == IF RLe(a, b) THEN a ELSE b
RMax(a, b) == IF RLe(b, a) THEN a ELSE b

RECURSIVE Sum(_)
Sum(s) == IF s = <<>> THEN 0 ELSE Head(s) + Sum(Tail(s))

----------------------------------------------------------------------------
(* Confidence scoring *)

calculate_confidence_unclamped(num_chunks, similarity_scores) ==
    IF similarity_scores = <<>> THEN R(0, 1)
    ELSE LET avg_similarity == R(Sum(similarity_scores), Len(similarity_scores) * Scale)
             chunk_factor == RMin(R(num_chunks, 5), R(1, 1))
         IN  RAdd(RMul(avg_similarity, R(7, 10)), RMul(chunk_factor, R(3, 10)))

calculate_confidence_divisor4(num_chunks, similarity_scores) ==
    IF similarity_scores = <<>> THEN R(0, 1)
    ELSE LET avg_similarity == R(Sum(similarity_scores), Len(similarity_scores) * Scale)
             chunk_factor == RMin(R(num_chunks, 4), R(1, 1))
             confidence == RAdd(RMul(avg_similarity, R(7, 10)), RMul(chunk_factor, R(3, 10)))
         IN  RMin(RMax(confidence, R(0, 1)), R(1, 1))

\* QASystem._calculate_confidence
calculate_confidence(num_chunks, similarity_scores) ==
    IF similarity_scores = <<>> THEN R(0, 1)
    ELSE LET avg_similarity == R(Sum(similarity_scores), Len(similarity_scores) * Scale)
             chunk_factor == RMin(R(num_chunks, 5), R(1, 1))
             confidence == RAdd(RMul(avg_similarity, R(7, 10)), RMul(chunk_factor, R(3, 10)))
         IN  RMin(RMax(confidence, R(0, 1)), R(1, 1))

calculate_confidence_score_similarity_only(num_chunks, similarity_scores) ==
    IF similarity_scores = <<>> THEN R(0, 1)
    ELSE LET avg_similarity == R(Sum(similarity_scores), Len(similarity_scores) * Scale)
         IN  RMin(RMax(avg_similarity, R(0, 1)), R(1, 1))

\* app.utils.calculate_confidence_score
calculate_confidence_score(num_chunks, similarity_scores) ==
    IF similarity_scores = <<>> THEN R(0, 1)
    ELSE LET avg_similarity == R(Sum(similarity_scores), Len(similarity_scores) * Scale)
             chunk_factor == RMin(R(num_chunks, 5), R(1, 1))
             confidence == RAdd(RMul(avg_similarity, R(7, 10)), RMul(chunk_factor, R(3, 10)))
         IN  RMin(RMax(confidence, R(0, 1)), R(1, 1))

----------------------------------------------------------------------------
(* Retrieval: FAISS over a one-dimensional embedding space.  Chunk c of a  *)
(* document is embedded at position c, a query at its own position; the    *)
(* index returns squared L2 distances, nearest first.                      *)

Distance(c, q) == (c - q) * (c - q)

Nearer(c, d, q) ==
    \/ Distance(c, q) < Distance(d, q)
    \/ Distance(c, q) = Distance(d, q) /\ c <= d

RECURSIVE TopK(_, _, _)
TopK(S, q, k) ==
    IF k <= 0 \/ S = {} THEN <<>>
    ELSE LET c == CHOOSE x \in S : \A d \in S : Nearer(x, d, q)
         IN  <<c>> \o TopK(S \ {c}, q, k - 1)

similarity_search_one_short(store, q, k) ==
    LET ids == TopK(1..store, q, k - 1)
    IN  [i \in 1..Len(ids) |-> <<ids[i], Distance(ids[i], q)>>]

\* FAISS.similarity_search_with_score(query, k) on the index `store`
similarity_search_with_score(store, q, k) ==
    LET ids == TopK(1..store, q, k)
    IN  [i \in 1..Len(ids) |-> <<ids[i], Distance(ids[i], q)>>]

----------------------------------------------------------------------------
(* Answer synthesis *)

Raised == "raised"
Fallback == "I encountered an error while generating the answer."
LlmText == "llm answer"

llm_invocations_with_retry(llm_ok) == IF llm_ok THEN 1 ELSE 2

\* QASystem._generate_answer: `response = self.llm(messages)`, in no loop
llm_invocations(llm_ok) == 1

generate_answer_reraises(llm_ok) == IF llm_ok THEN LlmText ELSE Raised

\* QASystem._generate_answer: the language model's text, or the fallback
generate_answer(llm_ok) == IF llm_ok THEN LlmText ELSE Fallback

----------------------------------------------------------------------------
(* Registry and storage helpers *)

Registered == {y \in DOMAIN vector_stores : vector_stores[y] # NoIndex}

\* os.path.exists(vector_db_path)
path_exists(year) == vectorDb[year] # NoIndex

\* FAISS.load_local: the stored index, or Corrupt when it raises
load_local(year) == vectorDb[year]

\* get_pdf_paths: the years that have a source file
pdf_paths == {y \in DOMAIN dataDir : dataDir[y] # NoFile}

has_index_always(year) == TRUE

\* ask_question: `year in self.vector_stores`
has_index(year) == vector_stores[year] # NoIndex

should_load_never(year, force_reprocess) == FALSE

\* initialize_data: load the persisted index instead of building
should_load(year, force_reprocess) == path_exists(year) /\ ~force_reprocess

----------------------------------------------------------------------------
(* Request handlers *)

Fresh ==
    [pc |-> "pending", kind |-> "none", force |-> FALSE, year |-> 0, query |-> 0,
     todo |-> {}, vs |-> NoIndex, old |-> NoIndex, built |-> {}, loaded |-> {},
     exc |-> "", err |-> "", citations |-> <<>>, scores |-> <<>>, answer |-> "",
     confidence |-> R(0, 1), results |-> {}, failed |-> {},
     calledRetriever |-> FALSE, calledLLM |-> FALSE, llmFailed |-> FALSE,
     reg0 |-> [y \in Years |-> NoIndex], raw |-> <<>>, text |-> <<>>,
     cited |-> <<>>, llmCalls |-> [y \in Years |-> 0], stats |-> <<>>,
     files |-> {}]

\* a slot is a client connection: its next request waits for the event loop
\* ("pending") or its handler is at some statement
Running(r) == h[r].pc # "pending"

thread_pool_free == TRUE

\* the endpoints are `async def` and never await: one handler owns the event
\* loop from its first statement to its return
event_loop_free == \A r \in Reqs : ~Running(r)

StartupDone == startup > Len(available_years)

Set(r, rec) == h' = [h EXCEPT ![r] = rec]

NotScored == [done |-> {}, qa |-> R(0, 1), util |-> R(0, 1)]

\* the text splitter of QASystem before it is handed a document
NoSplitter ==
    [pc |-> "idle", chunk_size |-> chunk_size, chunk_overlap |-> chunk_overlap,
     doc |-> <<0>>, i |-> 0, cur |-> 0,
     startPos |-> 0, endPos |-> 0, docs |-> <<>>]

\* The code treats every year alike, so of the initial directories that differ
\* only by a renaming of the years one is kept: the one whose years are in
\* ascending order of (source file, persisted index).
InitRank(files, db, y) ==
    3 * (CASE files[y] = NoFile -> 0 [] files[y] = 0 -> 1
              [] files[y] = NoChunks -> 2 [] OTHER -> 3)
      + (CASE db[y] = NoIndex -> 0 [] db[y] = Corrupt -> 1 [] OTHER -> 2)

Init ==
    /\ dataDir \in [Years -> {NoFile, 0, NoChunks, SmallDoc}]
    /\ vectorDb \in [Years -> {NoIndex, Corrupt, LargeDoc}]
    /\ \A y1, y2 \in Years :
          y1 < y2 => InitRank(dataDir, vectorDb, y1) <= InitRank(dataDir, vectorDb, y2)
    /\ vector_stores = [y \in Years |-> NoIndex]
    /\ startup = 1
    /\ h = [r \in Reqs |-> Fresh]
    /\ lastBuilt = {}
    /\ scoreIn = [num_chunks |-> 0, similarity_scores |-> <<>>]
    /\ scoreOut = NotScored
    /\ splitter = NoSplitter

LoadExistingKeepsFailed ==
    /\ ~StartupDone
    /\ LET year == available_years[startup]
       IN  vector_stores' =
               IF path_exists(year)
               THEN [vector_stores EXCEPT ![year] = load_local(year)]
               ELSE vector_stores
    /\ startup' = startup + 1
    /\ UNCHANGED <<dataDir, vectorDb, h, lastBuilt, scoreIn, scoreOut, splitter>>

LoadExistingStopsAtFailure ==
    /\ ~StartupDone
    /\ LET year == available_years[startup]
           failed == path_exists(year) /\ load_local(year) = Corrupt
       IN  /\ vector_stores' =
                  IF path_exists(year) /\ ~failed
                  THEN [vector_stores EXCEPT ![year] = load_local(year)]
                  ELSE vector_stores
           /\ startup' = IF failed THEN Len(available_years) + 1 ELSE startup + 1
    /\ UNCHANGED <<dataDir, vectorDb, h, lastBuilt, scoreIn, scoreOut, splitter>>

\* QASystem._load_existing_vector_databases, one year of its loop
LoadExisting ==
    /\ ~StartupDone
    /\ LET year == available_years[startup]
       IN  vector_stores' =
               IF path_exists(year) /\ load_local(year) # Corrupt
               THEN [vector_stores EXCEPT ![year] = load_local(year)]
               ELSE vector_stores
    /\ startup' = startup + 1
    /\ UNCHANGED <<dataDir, vectorDb, h, lastBuilt, scoreIn, scoreOut, splitter>>

----------------------------------------------------------------------------
(* POST /api/init-data: QAService.initialize_data -> QASystem.initialize_data *)

World == <<dataDir, vectorDb, vector_stores>>
Scorer == <<scoreIn, scoreOut>>

\* an exception leaves initialize_data: logged and re-raised, wrapped by the service
InitFailed(rec, exc) ==
    [rec EXCEPT !.exc = exc, !.err = "QueryProcessingError", !.pc = "ret"]

\* get_pdf_paths, then the early return when no source file is found
StartInit(r, force_reprocess) ==
    /\ StartupDone
    /\ h[r].pc = "pending"
    /\ event_loop_free
    /\ Set(r, [Fresh EXCEPT !.kind = "init", !.force = force_reprocess,
                            !.reg0 = vector_stores,
                            !.todo = pdf_paths,
                            !.pc = IF pdf_paths = {} THEN "ret" ELSE "i_loop"])
    /\ UNCHANGED <<World, startup, lastBuilt, Scorer, splitter>>

\* the loop is over: "Data initialization completed successfully"
InitDone(r) ==
    /\ h[r].pc = "i_loop"
    /\ h[r].todo = {}
    /\ Set(r, [h[r] EXCEPT !.pc = "ret"])
    /\ UNCHANGED <<World, startup, lastBuilt, Scorer, splitter>>

\* one iteration of `for year, pdf_path in pdf_paths.items()`: load or build
InitNext(r) ==
    /\ h[r].pc = "i_loop"
    /\ \E year \in h[r].todo :
         LET rec == [h[r] EXCEPT !.year = year, !.todo = @ \ {year}]
         IN  IF should_load(year, rec.force)
             THEN IF load_local(year) = Corrupt
                  THEN /\ Set(r, InitFailed(rec, "PersistenceError"))
                       /\ UNCHANGED vector_stores
                  ELSE /\ vector_stores' = [vector_stores EXCEPT ![year] = load_local(year)]
                       /\ Set(r, [rec EXCEPT !.loaded = @ \cup {year}])
             ELSE /\ Set(r, [rec EXCEPT !.pc = "p_load", !.old = vector_stores[year]])
                  /\ UNCHANGED vector_stores
    /\ UNCHANGED <<dataDir, vectorDb, startup, lastBuilt, Scorer, splitter>>

\* _process_pdf_for_year: load and clean the file.  Without a document (no
\* .pdf page whose cleaned text has content, a .txt whose raw text is blank
\* or that load_text_file cannot read) the method returns and the loop goes
\* on; a .txt whose raw text is not blank is a document whatever clean_text
\* leaves of it.  PyPDFLoader can raise on a .pdf; reading a .txt never raises
ProcessLoad(r) ==
    /\ h[r].pc = "p_load"
    /\ \E ok \in BOOLEAN :
         IF ~ok
         THEN /\ dataDir[h[r].year] # NoChunks
              /\ Set(r, InitFailed(h[r], "DocumentLoadError"))
         ELSE IF dataDir[h[r].year] = 0
              THEN Set(r, [h[r] EXCEPT !.pc = "i_loop", !.old = NoIndex])
              ELSE Set(r, [h[r] EXCEPT !.pc = "p_embed"])
    /\ UNCHANGED <<World, startup, lastBuilt, Scorer, splitter>>

ProcessEmbedRegistersEarly(r) ==
    /\ h[r].pc = "p_embed"
    /\ IF dataDir[h[r].year] = NoChunks
       THEN /\ Set(r, InitFailed(h[r], "IndexError"))
            /\ UNCHANGED vector_stores
       ELSE \E ok \in BOOLEAN :
              IF ok
              THEN /\ Set(r, [h[r] EXCEPT !.vs = dataDir[h[r].year], !.pc = "p_save"])
                   /\ vector_stores' =
                         [vector_stores EXCEPT ![h[r].year] = dataDir[h[r].year]]
              ELSE /\ Set(r, InitFailed(h[r], "EmbeddingServiceError"))
                   /\ UNCHANGED vector_stores
    /\ UNCHANGED <<dataDir, vectorDb, startup, lastBuilt, Scorer, splitter>>

\* split_documents and FAISS.from_documents: the new index, held in a local.
\* The document of a NoChunks file is split into no chunk, and from_documents
\* raises IndexError on the empty list
ProcessEmbed(r) ==
    /\ h[r].pc = "p_embed"
    /\ IF dataDir[h[r].year] = NoChunks
       THEN Set(r, InitFailed(h[r], "IndexError"))
       ELSE \E ok \in BOOLEAN :
              IF ok
              THEN Set(r, [h[r] EXCEPT !.vs = dataDir[h[r].year], !.pc = "p_save"])
              ELSE Set(r, InitFailed(h[r], "EmbeddingServiceError"))
    /\ UNCHANGED <<World, startup, lastBuilt, Scorer, splitter>>

ProcessSaveRegistersFirst(r) ==
    /\ h[r].pc = "p_save"
    /\ vector_stores' = [vector_stores EXCEPT ![h[r].year] = h[r].vs]
    /\ \E outcome \in {"ok", "failed", "partial"} :
         CASE outcome = "ok" ->
                /\ vectorDb' = [vectorDb EXCEPT ![h[r].year] = h[r].vs]
                /\ Set(r, [h[r] EXCEPT !.pc = "p_register"])
           [] outcome = "failed" ->
                /\ UNCHANGED vectorDb
                /\ Set(r, InitFailed(h[r], "PersistenceError"))
           [] outcome = "partial" ->
                /\ vectorDb' = [vectorDb EXCEPT ![h[r].year] = Corrupt]
                /\ Set(r, InitFailed(h[r], "PersistenceError"))
    /\ UNCHANGED <<dataDir, startup, lastBuilt, Scorer, splitter>>

\* vector_store.save_local: a failed write leaves the old path or a broken one
ProcessSave(r) ==
    /\ h[r].pc = "p_save"
    /\ \E outcome \in {"ok", "failed", "partial"} :
         CASE outcome = "ok" ->
                /\ vectorDb' = [vectorDb EXCEPT ![h[r].year] = h[r].vs]
                /\ Set(r, [h[r] EXCEPT !.pc = "p_register"])
           [] outcome = "failed" ->
                /\ UNCHANGED vectorDb
                /\ Set(r, InitFailed(h[r], "PersistenceError"))
           [] outcome = "partial" ->
                /\ vectorDb' = [vectorDb EXCEPT ![h[r].year] = Corrupt]
                /\ Set(r, InitFailed(h[r], "PersistenceError"))
    /\ UNCHANGED <<dataDir, vector_stores, startup, lastBuilt, Scorer, splitter>>

\* self.vector_stores[year] = vector_store
ProcessRegister(r) ==
    /\ h[r].pc = "p_register"
    /\ vector_stores' = [vector_stores EXCEPT ![h[r].year] = h[r].vs]
    /\ Set(r, [h[r] EXCEPT !.built = @ \cup {h[r].year}, !.pc = "i_loop",
                           !.vs = NoIndex, !.old = NoIndex])
    /\ UNCHANGED <<dataDir, vectorDb, startup, lastBuilt, Scorer, splitter>>

----------------------------------------------------------------------------
(* POST /api/query: QAService.process_query -> QASystem.ask_question(_all_years) *)

ask_failed_propagates(rec, exc) ==
    [rec EXCEPT !.exc = exc, !.err = "QueryProcessingError", !.pc = "ret"]

\* ask_question raised: the all-years loop logs and continues, the single-year
\* path wraps the exception in QueryProcessingError
ask_failed(rec, exc) ==
    IF rec.kind = "all"
    THEN [rec EXCEPT !.failed = @ \cup {rec.year}, !.pc = "a_loop",
                     !.citations = <<>>, !.scores = <<>>, !.llmFailed = FALSE]
    ELSE [rec EXCEPT !.exc = exc, !.err = "QueryProcessingError", !.pc = "ret"]

StartQuery(r, year, query) ==
    /\ StartupDone
    /\ h[r].pc = "pending"
    /\ event_loop_free
    /\ Set(r, [Fresh EXCEPT !.kind = "single", !.year = year, !.query = query,
                            !.reg0 = vector_stores, !.pc = "q_lookup"])
    /\ UNCHANGED <<World, startup, lastBuilt, Scorer, splitter>>

StartAllYears(r, query) ==
    /\ StartupDone
    /\ h[r].pc = "pending"
    /\ event_loop_free
    /\ Set(r, [Fresh EXCEPT !.kind = "all", !.query = query,
                            !.reg0 = vector_stores, !.todo = Registered,
                            !.pc = "a_loop"])
    /\ UNCHANGED <<World, startup, lastBuilt, Scorer, splitter>>

\* ask_question_all_years: the next year of `for year in self.vector_stores.keys()`
AllYearsNext(r) ==
    /\ h[r].pc = "a_loop"
    /\ \E year \in h[r].todo :
         Set(r, [h[r] EXCEPT !.year = year, !.todo = @ \ {year}, !.pc = "q_lookup"])
    /\ UNCHANGED <<World, startup, lastBuilt, Scorer, splitter>>

\* ask_question_all_years: return results
AllYearsDone(r) ==
    /\ h[r].pc = "a_loop"
    /\ h[r].todo = {}
    /\ Set(r, [h[r] EXCEPT !.pc = "ret"])
    /\ UNCHANGED <<World, startup, lastBuilt, Scorer, splitter>>

\* ask_question: `if year not in self.vector_stores: raise ValueError`
Lookup(r) ==
    /\ h[r].pc = "q_lookup"
    /\ IF ~has_index(h[r].year)
       THEN Set(r, ask_failed(h[r], "NoDataAvailable"))
       ELSE Set(r, [h[r] EXCEPT !.pc = "q_retrieve"])
    /\ UNCHANGED <<World, startup, lastBuilt, Scorer, splitter>>

RetrieveEvictsOnFailure(r) ==
    /\ h[r].pc = "q_retrieve"
    /\ \E ok \in BOOLEAN :
         LET rec == [h[r] EXCEPT !.calledRetriever = TRUE]
             docs == similarity_search_with_score(
                         vector_stores[rec.year], rec.query, max_chunks_per_query)
         IN  IF ~ok
             THEN /\ Set(r, ask_failed(rec, "RetrievalError"))
                  /\ vector_stores' = [vector_stores EXCEPT ![rec.year] = NoIndex]
             ELSE /\ Set(r, [rec EXCEPT
                         !.citations = [i \in 1..Len(docs) |-> docs[i][1]],
                         !.scores = [i \in 1..Len(docs) |-> Scale - docs[i][2]],
                         !.pc = "q_generate"])
                  /\ UNCHANGED vector_stores
    /\ UNCHANGED <<dataDir, vectorDb, startup, lastBuilt, Scorer, splitter>>

\* ask_question: similarity search, citations and similarity scores
Retrieve(r) ==
    /\ h[r].pc = "q_retrieve"
    /\ \E ok \in BOOLEAN :
         LET rec == [h[r] EXCEPT !.calledRetriever = TRUE]
             docs == similarity_search_with_score(
                         vector_stores[rec.year], rec.query, max_chunks_per_query)
         IN  IF ~ok THEN Set(r, ask_failed(rec, "RetrievalError"))
             ELSE Set(r, [rec EXCEPT
                      !.citations = [i \in 1..Len(docs) |-> docs[i][1]],
                      !.scores = [i \in 1..Len(docs) |-> Scale - docs[i][2]],
                      !.pc = "q_generate"])
    /\ UNCHANGED <<World, startup, lastBuilt, Scorer, splitter>>

\* Python's None in a field that otherwise holds a page number
None == -1

\* _process_single_year_query: Citation(text=citation_text, source=...)
Citation(citation_text, year) ==
    [text |-> citation_text, page |-> None,
     source |-> <<"apple_annual_report_", year, ".pdf">>]

\* _process_single_year_query: the citations of the structured result
structured_citations(citations, year) ==
    [i \in DOMAIN citations |-> Citation(citations[i], year)]

QAResult(rec, answer) ==
    [answer |-> answer, citations |-> rec.citations,
     confidence |-> calculate_confidence(Len(rec.citations), rec.scores),
     year |-> rec.year, query |-> rec.query]

\* ask_question: _generate_answer, _calculate_confidence, the QAResult; on the
\* single-year path _process_single_year_query then builds the citations
Generate(r) ==
    /\ h[r].pc = "q_generate"
    /\ \E llm_ok \in BOOLEAN :
         LET rec == [h[r] EXCEPT !.calledLLM = TRUE, !.llmFailed = ~llm_ok,
                                 !.llmCalls[h[r].year] = @ + llm_invocations(llm_ok)]
             answer == generate_answer(llm_ok)
         IN  IF answer = Raised THEN Set(r, ask_failed(rec, "LanguageModelError"))
             ELSE IF rec.kind = "all"
                  THEN Set(r, [rec EXCEPT !.results = @ \cup {QAResult(rec, answer)},
                                          !.citations = <<>>, !.scores = <<>>,
                                          !.llmFailed = FALSE, !.pc = "a_loop"])
                  ELSE Set(r, [rec EXCEPT !.answer = answer,
                                          !.confidence = QAResult(rec, answer).confidence,
                                          !.cited = structured_citations(
                                                        QAResult(rec, answer).citations,
                                                        rec.year),
                                          !.pc = "ret"])
    /\ UNCHANGED <<World, startup, lastBuilt, Scorer, splitter>>

\* the handler returns its response and the event loop is free again
Return(r) ==
    /\ h[r].pc = "ret"
    /\ Set(r, Fresh)
    /\ lastBuilt' = IF h[r].kind # "init" THEN lastBuilt
                    ELSE IF h[r].force THEN {} ELSE h[r].built
    /\ UNCHANGED <<World, startup, Scorer, splitter>>

Next ==
    \/ LoadExisting
    \/ \E r \in Reqs, force_reprocess \in BOOLEAN : StartInit(r, force_reprocess)
    \/ \E r \in Reqs : InitNext(r)
    \/ \E r \in Reqs : InitDone(r)
    \/ \E r \in Reqs : ProcessLoad(r)
    \/ \E r \in Reqs : ProcessEmbed(r)
    \/ \E r \in Reqs : ProcessSave(r)
    \/ \E r \in Reqs : ProcessRegister(r)
    \/ \E r \in Reqs, year \in Years, query \in 0..MaxQuery : StartQuery(r, year, query)
    \/ \E r \in Reqs, query \in 0..MaxQuery : StartAllYears(r, query)
    \/ \E r \in Reqs : AllYearsNext(r)
    \/ \E r \in Reqs : AllYearsDone(r)
    \/ \E r \in Reqs : Lookup(r)
    \/ \E r \in Reqs : Retrieve(r)
    \/ \E r \in Reqs : Generate(r)
    \/ \E r \in Reqs : Return(r)

Spec == Init /\ [][Next]_vars

----------------------------------------------------------------------------
(* The confidence scorers on their own, over every argument in the bounds *)

ScoreVals == {-2 * Scale, 0, Scale \div 2, Scale, 2 * Scale}

RECURSIVE SeqsUpTo(_, _)
SeqsUpTo(S, n) ==
    IF n = 0 THEN {<<>>}
    ELSE LET shorter == SeqsUpTo(S, n - 1)
         IN  shorter \cup {Append(q, x) : q \in {t \in shorter : Len(t) = n - 1}, x \in S}

InitScore ==
    /\ dataDir = [y \in Years |-> NoFile]
    /\ vectorDb = [y \in Years |-> NoIndex]
    /\ vector_stores = [y \in Years |-> NoIndex]
    /\ startup = 1
    /\ h = [r \in Reqs |-> Fresh]
    /\ lastBuilt = {}
    /\ scoreIn \in [num_chunks : -1..MaxNum, similarity_scores : SeqsUpTo(ScoreVals, MaxLen)]
    /\ scoreOut = NotScored
    /\ splitter = NoSplitter

\* QASystem._calculate_confidence(num_chunks, similarity_scores)
CalcQA ==
    /\ "qa" \notin scoreOut.done
    /\ scoreOut' = [scoreOut EXCEPT
           !.done = @ \cup {"qa"},
           !.qa = calculate_confidence(scoreIn.num_chunks, scoreIn.similarity_scores)]
    /\ UNCHANGED <<World, startup, h, lastBuilt, scoreIn, splitter>>

\* app.utils.calculate_confidence_score(num_chunks, similarity_scores)
CalcUtil ==
    /\ "util" \notin scoreOut.done
    /\ scoreOut' = [scoreOut EXCEPT
           !.done = @ \cup {"util"},
           !.util = calculate_confidence_score(scoreIn.num_chunks, scoreIn.similarity_scores)]
    /\ UNCHANGED <<World, startup, h, lastBuilt, scoreIn, splitter>>

NextScore == CalcQA \/ CalcUtil

SpecScore == InitScore /\ [][NextScore]_vars

----------------------------------------------------------------------------
(* Texts.  A text is the sequence of the code points of its characters,    *)
(* ord(c) for every character c of the Python str: "a b" is <<97, 32, 98>>, *)
(* and its length is len() of the str.  The classes of characters are those *)
(* of Python 3.11 (Unicode 14.0.0), over all code points 0..1114111.        *)

\* the characters str.strip() removes from both ends of a str and \s matches
\* in a str pattern, those str.isspace() holds of: "\t" "\n" "\v" "\f" "\r"
\* (9..13), the separators U+001C..U+001F (28..31), the blank (32), NEL (133),
\* the no-break space (160), U+1680 (5760), U+2000..U+200A (8192..8202),
\* U+2028 and U+2029 (8232, 8233), U+202F (8239), U+205F (8287), U+3000 (12288)
Whitespace ==
    (9..13) \cup (28..32) \cup {133, 160, 5760} \cup (8192..8202)
        \cup {8232, 8233, 8239, 8287, 12288}

IsSpace(c) == c \in Whitespace

RECURSIVE LStrip(_)
LStrip(s) == IF s # <<>> /\ IsSpace(Head(s)) THEN LStrip(Tail(s)) ELSE s

RECURSIVE RStrip(_)
RStrip(s) ==
    IF s # <<>> /\ IsSpace(s[Len(s)]) THEN RStrip(SubSeq(s, 1, Len(s) - 1)) ELSE s

\* str.strip()
strip(s) == RStrip(LStrip(s))

\* what \w matches in a str pattern, as the stretches <<first, last>> of code
\* points: the alphanumeric characters (str.isalnum()) and the underscore.
\* The first stretches are the digits, A-Z, the underscore, a-z, then the
\* letters and numeric characters of Latin-1 and beyond
WordRanges ==
    {<<48, 57>>, <<65, 90>>, <<95, 95>>, <<97, 122>>, <<170, 170>>,
     <<178, 179>>, <<181, 181>>, <<185, 186>>, <<188, 190>>, <<192, 214>>,
     <<216, 246>>, <<248, 705>>, <<710, 721>>, <<736, 740>>, <<748, 748>>,
     <<750, 750>>, <<880, 884>>, <<886, 887>>, <<890, 893>>, <<895, 895>>,
     <<902, 902>>, <<904, 906>>, <<908, 908>>, <<910, 929>>, <<931, 1013>>,
     <<1015, 1153>>, <<1162, 1327>>, <<1329, 1366>>, <<1369, 1369>>, <<1376, 1416>>,
     <<1488, 1514>>, <<1519, 1522>>, <<1568, 1610>>, <<1632, 1641>>, <<1646, 1647>>,
     <<1649, 1747>>, <<1749, 1749>>, <<1765, 1766>>, <<1774, 1788>>, <<1791, 1791>>,
     <<1808, 1808>>, <<1810, 1839>>, <<1869, 1957>>, <<1969, 1969>>, <<1984, 2026>>,
     <<2036, 2037>>, <<2042, 2042>>, <<2048, 2069>>, <<2074, 2074>>, <<2084, 2084>>,
     <<2088, 2088>>, <<2112, 2136>>, <<2144, 2154>>, <<2160, 2183>>, <<2185, 2190>>,
     <<2208, 2249>>, <<2308, 2361>>, <<2365, 2365>>, <<2384, 2384>>, <<2392, 2401>>,
     <<2406, 2415>>, <<2417, 2432>>, <<2437, 2444>>, <<2447, 2448>>, <<2451, 2472>>,
     <<2474, 2480>>, <<2482, 2482>>, <<2486, 2489>>, <<2493, 2493>>, <<2510, 2510>>,
     <<2524, 2525>>, <<2527, 2529>>, <<2534, 2545>>, <<2548, 2553>>, <<2556, 2556>>,
     <<2565, 2570>>, <<2575, 2576>>, <<2579, 2600>>, <<2602, 2608>>, <<2610, 2611>>,
     <<2613, 2614>>, <<2616, 2617>>, <<2649, 2652>>, <<2654, 2654>>, <<2662, 2671>>,
     <<2674, 2676>>, <<2693, 2701>>, <<2703, 2705>>, <<2707, 2728>>, <<2730, 2736>>,
     <<2738, 2739>>, <<2741, 2745>>, <<2749, 2749>>, <<2768, 2768>>, <<2784, 2785>>,
     <<2790, 2799>>, <<2809, 2809>>, <<2821, 2828>>, <<2831, 2832>>, <<2835, 2856>>,
     <<2858, 2864>>, <<2866, 2867>>, <<2869, 2873>>, <<2877, 2877>>, <<2908, 2909>>,
     <<2911, 2913>>, <<2918, 2927>>, <<2929, 2935>>, <<2947, 2947>>, <<2949, 2954>>,
     <<2958, 2960>>, <<2962, 2965>>, <<2969, 2970>>, <<2972, 2972>>, <<2974, 2975>>,
     <<2979, 2980>>, <<2984, 2986>>, <<2990, 3001>>, <<3024, 3024>>, <<3046, 3058>>,
     <<3077, 3084>>, <<3086, 3088>>, <<3090, 3112>>, <<3114, 3129>>, <<3133, 3133>>,
     <<3160, 3162>>, <<3165, 3165>>, <<3168, 3169>>, <<3174, 3183>>, <<3192, 3198>>,
     <<3200, 3200>>, <<3205, 3212>>, <<3214, 3216>>, <<3218, 3240>>, <<3242, 3251>>,
     <<3253, 3257>>, <<3261, 3261>>, <<3293, 3294>>, <<3296, 3297>>, <<3302, 3311>>,
     <<3313, 3314>>, <<3332, 3340>>, <<3342, 3344>>, <<3346, 3386>>, <<3389, 3389>>,
     <<3406, 3406>>, <<3412, 3414>>, <<3416, 3425>>, <<3430, 3448>>, <<3450, 3455>>,
     <<3461, 3478>>, <<3482, 3505>>, <<3507, 3515>>, <<3517, 3517>>, <<3520, 3526>>,
     <<3558, 3567>>, <<3585, 3632>>, <<3634, 3635>>, <<3648, 3654>>, <<3664, 3673>>,
     <<3713, 3714>>, <<3716, 3716>>, <<3718, 3722>>, <<3724, 3747>>, <<3749, 3749>>,
     <<3751, 3760>>, <<3762, 3763>>, <<3773, 3773>>, <<3776, 3780>>, <<3782, 3782>>,
     <<3792, 3801>>, <<3804, 3807>>, <<3840, 3840>>, <<3872, 3891>>, <<3904, 3911>>,
     <<3913, 3948>>, <<3976, 3980>>, <<4096, 4138>>, <<4159, 4169>>, <<4176, 4181>>,
     <<4186, 4189>>, <<4193, 4193>>, <<4197, 4198>>, <<4206, 4208>>, <<4213, 4225>>,
     <<4238, 4238>>, <<4240, 4249>>, <<4256, 4293>>, <<4295, 4295>>, <<4301, 4301>>,
     <<4304, 4346>>, <<4348, 4680>>, <<4682, 4685>>, <<4688, 4694>>, <<4696, 4696>>,
     <<4698, 4701>>, <<4704, 4744>>, <<4746, 4749>>, <<4752, 4784>>, <<4786, 4789>>,
     <<4792, 4798>>, <<4800, 4800>>, <<4802, 4805>>, <<4808, 4822>>, <<4824, 4880>>,
     <<4882, 4885>>, <<4888, 4954>>, <<4969, 4988>>, <<4992, 5007>>, <<5024, 5109>>,
     <<5112, 5117>>, <<5121, 5740>>, <<5743, 5759>>, <<5761, 5786>>, <<5792, 5866>>,
     <<5870, 5880>>, <<5888, 5905>>, <<5919, 5937>>, <<5952, 5969>>, <<5984, 5996>>,
     <<5998, 6000>>, <<6016, 6067>>, <<6103, 6103>>, <<6108, 6108>>, <<6112, 6121>>,
     <<6128, 6137>>, <<6160, 6169>>, <<6176, 6264>>, <<6272, 6276>>, <<6279, 6312>>,
     <<6314, 6314>>, <<6320, 6389>>, <<6400, 6430>>, <<6470, 6509>>, <<6512, 6516>>,
     <<6528, 6571>>, <<6576, 6601>>, <<6608, 6618>>, <<6656, 6678>>, <<6688, 6740>>,
     <<6784, 6793>>, <<6800, 6809>>, <<6823, 6823>>, <<6917, 6963>>, <<6981, 6988>>,
     <<6992, 7001>>, <<7043, 7072>>, <<7086, 7141>>, <<7168, 7203>>, <<7232, 7241>>,
     <<7245, 7293>>, <<7296, 7304>>, <<7312, 7354>>, <<7357, 7359>>, <<7401, 7404>>,
     <<7406, 7411>>, <<7413, 7414>>, <<7418, 7418>>, <<7424, 7615>>, <<7680, 7957>>,
     <<7960, 7965>>, <<7968, 8005>>, <<8008, 8013>>, <<8016, 8023>>, <<8025, 8025>>,
     <<8027, 8027>>, <<8029, 8029>>, <<8031, 8061>>, <<8064, 8116>>, <<8118, 8124>>,
     <<8126, 8126>>, <<8130, 8132>>, <<8134, 8140>>, <<8144, 8147>>, <<8150, 8155>>,
     <<8160, 8172>>, <<8178, 8180>>, <<8182, 8188>>, <<8304, 8305>>, <<8308, 8313>>,
     <<8319, 8329>>, <<8336, 8348>>, <<8450, 8450>>, <<8455, 8455>>, <<8458, 8467>>,
     <<8469, 8469>>, <<8473, 8477>>, <<8484, 8484>>, <<8486, 8486>>, <<8488, 8488>>,
     <<8490, 8493>>, <<8495, 8505>>, <<8508, 8511>>, <<8517, 8521>>, <<8526, 8526>>,
     <<8528, 8585>>, <<9312, 9371>>, <<9450, 9471>>, <<10102, 10131>>, <<11264, 11492>>,
     <<11499, 11502>>, <<11506, 11507>>, <<11517, 11517>>, <<11520, 11557>>, <<11559, 11559>>,
     <<11565, 11565>>, <<11568, 11623>>, <<11631, 11631>>, <<11648, 11670>>, <<11680, 11686>>,
     <<11688, 11694>>, <<11696, 11702>>, <<11704, 11710>>, <<11712, 11718>>, <<11720, 11726>>,
     <<11728, 11734>>, <<11736, 11742>>, <<11823, 11823>>, <<12293, 12295>>, <<12321, 12329>>,
     <<12337, 12341>>, <<12344, 12348>>, <<12353, 12438>>, <<12445, 12447>>, <<12449, 12538>>,
     <<12540, 12543>>, <<12549, 12591>>, <<12593, 12686>>, <<12690, 12693>>, <<12704, 12735>>,
     <<12784, 12799>>, <<12832, 12841>>, <<12872, 12879>>, <<12881, 12895>>, <<12928, 12937>>,
     <<12977, 12991>>, <<13312, 19903>>, <<19968, 42124>>, <<42192, 42237>>, <<42240, 42508>>,
     <<42512, 42539>>, <<42560, 42606>>, <<42623, 42653>>, <<42656, 42735>>, <<42775, 42783>>,
     <<42786, 42888>>, <<42891, 42954>>, <<42960, 42961>>, <<42963, 42963>>, <<42965, 42969>>,
     <<42994, 43009>>, <<43011, 43013>>, <<43015, 43018>>, <<43020, 43042>>, <<43056, 43061>>,
     <<43072, 43123>>, <<43138, 43187>>, <<43216, 43225>>, <<43250, 43255>>, <<43259, 43259>>,
     <<43261, 43262>>, <<43264, 43301>>, <<43312, 43334>>, <<43360, 43388>>, <<43396, 43442>>,
     <<43471, 43481>>, <<43488, 43492>>, <<43494, 43518>>, <<43520, 43560>>, <<43584, 43586>>,
     <<43588, 43595>>, <<43600, 43609>>, <<43616, 43638>>, <<43642, 43642>>, <<43646, 43695>>,
     <<43697, 43697>>, <<43701, 43702>>, <<43705, 43709>>, <<43712, 43712>>, <<43714, 43714>>,
     <<43739, 43741>>, <<43744, 43754>>, <<43762, 43764>>, <<43777, 43782>>, <<43785, 43790>>,
     <<43793, 43798>>, <<43808, 43814>>, <<43816, 43822>>, <<43824, 43866>>, <<43868, 43881>>,
     <<43888, 44002>>, <<44016, 44025>>, <<44032, 55203>>, <<55216, 55238>>, <<55243, 55291>>,
     <<63744, 64109>>, <<64112, 64217>>, <<64256, 64262>>, <<64275, 64279>>, <<64285, 64285>>,
     <<64287, 64296>>, <<64298, 64310>>, <<64312, 64316>>, <<64318, 64318>>, <<64320, 64321>>,
     <<64323, 64324>>, <<64326, 64433>>, <<64467, 64829>>, <<64848, 64911>>, <<64914, 64967>>,
     <<65008, 65019>>, <<65136, 65140>>, <<65142, 65276>>, <<65296, 65305>>, <<65313, 65338>>,
     <<65345, 65370>>, <<65382, 65470>>, <<65474, 65479>>, <<65482, 65487>>, <<65490, 65495>>,
     <<65498, 65500>>, <<65536, 65547>>, <<65549, 65574>>, <<65576, 65594>>, <<65596, 65597>>,
     <<65599, 65613>>, <<65616, 65629>>, <<65664, 65786>>, <<65799, 65843>>, <<65856, 65912>>,
     <<65930, 65931>>, <<66176, 66204>>, <<66208, 66256>>, <<66273, 66299>>, <<66304, 66339>>,
     <<66349, 66378>>, <<66384, 66421>>, <<66432, 66461>>, <<66464, 66499>>, <<66504, 66511>>,
     <<66513, 66517>>, <<66560, 66717>>, <<66720, 66729>>, <<66736, 66771>>, <<66776, 66811>>,
     <<66816, 66855>>, <<66864, 66915>>, <<66928, 66938>>, <<66940, 66954>>, <<66956, 66962>>,
     <<66964, 66965>>, <<66967, 66977>>, <<66979, 66993>>, <<66995, 67001>>, <<67003, 67004>>,
     <<67072, 67382>>, <<67392, 67413>>, <<67424, 67431>>, <<67456, 67461>>, <<67463, 67504>>,
     <<67506, 67514>>, <<67584, 67589>>, <<67592, 67592>>, <<67594, 67637>>, <<67639, 67640>>,
     <<67644, 67644>>, <<67647, 67669>>, <<67672, 67702>>, <<67705, 67742>>, <<67751, 67759>>,
     <<67808, 67826>>, <<67828, 67829>>, <<67835, 67867>>, <<67872, 67897>>, <<67968, 68023>>,
     <<68028, 68047>>, <<68050, 68096>>, <<68112, 68115>>, <<68117, 68119>>, <<68121, 68149>>,
     <<68160, 68168>>, <<68192, 68222>>, <<68224, 68255>>, <<68288, 68295>>, <<68297, 68324>>,
     <<68331, 68335>>, <<68352, 68405>>, <<68416, 68437>>, <<68440, 68466>>, <<68472, 68497>>,
     <<68521, 68527>>, <<68608, 68680>>, <<68736, 68786>>, <<68800, 68850>>, <<68858, 68899>>,
     <<68912, 68921>>, <<69216, 69246>>, <<69248, 69289>>, <<69296, 69297>>, <<69376, 69415>>,
     <<69424, 69445>>, <<69457, 69460>>, <<69488, 69505>>, <<69552, 69579>>, <<69600, 69622>>,
     <<69635, 69687>>, <<69714, 69743>>, <<69745, 69746>>, <<69749, 69749>>, <<69763, 69807>>,
     <<69840, 69864>>, <<69872, 69881>>, <<69891, 69926>>, <<69942, 69951>>, <<69956, 69956>>,
     <<69959, 69959>>, <<69968, 70002>>, <<70006, 70006>>, <<70019, 70066>>, <<70081, 70084>>,
     <<70096, 70106>>, <<70108, 70108>>, <<70113, 70132>>, <<70144, 70161>>, <<70163, 70187>>,
     <<70272, 70278>>, <<70280, 70280>>, <<70282, 70285>>, <<70287, 70301>>, <<70303, 70312>>,
     <<70320, 70366>>, <<70384, 70393>>, <<70405, 70412>>, <<70415, 70416>>, <<70419, 70440>>,
     <<70442, 70448>>, <<70450, 70451>>, <<70453, 70457>>, <<70461, 70461>>, <<70480, 70480>>,
     <<70493, 70497>>, <<70656, 70708>>, <<70727, 70730>>, <<70736, 70745>>, <<70751, 70753>>,
     <<70784, 70831>>, <<70852, 70853>>, <<70855, 70855>>, <<70864, 70873>>, <<71040, 71086>>,
     <<71128, 71131>>, <<71168, 71215>>, <<71236, 71236>>, <<71248, 71257>>, <<71296, 71338>>,
     <<71352, 71352>>, <<71360, 71369>>, <<71424, 71450>>, <<71472, 71483>>, <<71488, 71494>>,
     <<71680, 71723>>, <<71840, 71922>>, <<71935, 71942>>, <<71945, 71945>>, <<71948, 71955>>,
     <<71957, 71958>>, <<71960, 71983>>, <<71999, 71999>>, <<72001, 72001>>, <<72016, 72025>>,
     <<72096, 72103>>, <<72106, 72144>>, <<72161, 72161>>, <<72163, 72163>>, <<72192, 72192>>,
     <<72203, 72242>>, <<72250, 72250>>, <<72272, 72272>>, <<72284, 72329>>, <<72349, 72349>>,
     <<72368, 72440>>, <<72704, 72712>>, <<72714, 72750>>, <<72768, 72768>>, <<72784, 72812>>,
     <<72818, 72847>>, <<72960, 72966>>, <<72968, 72969>>, <<72971, 73008>>, <<73030, 73030>>,
     <<73040, 73049>>, <<73056, 73061>>, <<73063, 73064>>, <<73066, 73097>>, <<73112, 73112>>,
     <<73120, 73129>>, <<73440, 73458>>, <<73648, 73648>>, <<73664, 73684>>, <<73728, 74649>>,
     <<74752, 74862>>, <<74880, 75075>>, <<77712, 77808>>, <<77824, 78894>>, <<82944, 83526>>,
     <<92160, 92728>>, <<92736, 92766>>, <<92768, 92777>>, <<92784, 92862>>, <<92864, 92873>>,
     <<92880, 92909>>, <<92928, 92975>>, <<92992, 92995>>, <<93008, 93017>>, <<93019, 93025>>,
     <<93027, 93047>>, <<93053, 93071>>, <<93760, 93846>>, <<93952, 94026>>, <<94032, 94032>>,
     <<94099, 94111>>, <<94176, 94177>>, <<94179, 94179>>, <<94208, 100343>>, <<100352, 101589>>,
     <<101632, 101640>>, <<110576, 110579>>, <<110581, 110587>>, <<110589, 110590>>, <<110592, 110882>>,
     <<110928, 110930>>, <<110948, 110951>>, <<110960, 111355>>, <<113664, 113770>>, <<113776, 113788>>,
     <<113792, 113800>>, <<113808, 113817>>, <<119520, 119539>>, <<119648, 119672>>, <<119808, 119892>>,
     <<119894, 119964>>, <<119966, 119967>>, <<119970, 119970>>, <<119973, 119974>>, <<119977, 119980>>,
     <<119982, 119993>>, <<119995, 119995>>, <<119997, 120003>>, <<120005, 120069>>, <<120071, 120074>>,
     <<120077, 120084>>, <<120086, 120092>>, <<120094, 120121>>, <<120123, 120126>>, <<120128, 120132>>,
     <<120134, 120134>>, <<120138, 120144>>, <<120146, 120485>>, <<120488, 120512>>, <<120514, 120538>>,
     <<120540, 120570>>, <<120572, 120596>>, <<120598, 120628>>, <<120630, 120654>>, <<120656, 120686>>,
     <<120688, 120712>>, <<120714, 120744>>, <<120746, 120770>>, <<120772, 120779>>, <<120782, 120831>>,
     <<122624, 122654>>, <<123136, 123180>>, <<123191, 123197>>, <<123200, 123209>>, <<123214, 123214>>,
     <<123536, 123565>>, <<123584, 123627>>, <<123632, 123641>>, <<124896, 124902>>, <<124904, 124907>>,
     <<124909, 124910>>, <<124912, 124926>>, <<124928, 125124>>, <<125127, 125135>>, <<125184, 125251>>,
     <<125259, 125259>>, <<125264, 125273>>, <<126065, 126123>>, <<126125, 126127>>, <<126129, 126132>>,
     <<126209, 126253>>, <<126255, 126269>>, <<126464, 126467>>, <<126469, 126495>>, <<126497, 126498>>,
     <<126500, 126500>>, <<126503, 126503>>, <<126505, 126514>>, <<126516, 126519>>, <<126521, 126521>>,
     <<126523, 126523>>, <<126530, 126530>>, <<126535, 126535>>, <<126537, 126537>>, <<126539, 126539>>,
     <<126541, 126543>>, <<126545, 126546>>, <<126548, 126548>>, <<126551, 126551>>, <<126553, 126553>>,
     <<126555, 126555>>, <<126557, 126557>>, <<126559, 126559>>, <<126561, 126562>>, <<126564, 126564>>,
     <<126567, 126570>>, <<126572, 126578>>, <<126580, 126583>>, <<126585, 126588>>, <<126590, 126590>>,
     <<126592, 126601>>, <<126603, 126619>>, <<126625, 126627>>, <<126629, 126633>>, <<126635, 126651>>,
     <<127232, 127244>>, <<130032, 130041>>, <<131072, 173791>>, <<173824, 177976>>, <<177984, 178205>>,
     <<178208, 183969>>, <<183984, 191456>>, <<194560, 195101>>, <<196608, 201546>>}

WordChars == UNION {rg[1]..rg[2] : rg \in WordRanges}

\* the punctuation clean_text keeps: . , ! ? ; : - ( ) [ ] { }
KeptPunctuation == {46, 44, 33, 63, 59, 58, 45, 40, 41, 91, 93, 123, 125}

\* a character the class [^\w\s\.\,\!\?\;\:\-\(\)\[\]\{\}] does not match
Kept(c) == c \in WordChars \cup Whitespace \cup KeptPunctuation

\* re.sub(r'\s+', ' ', text): every run of whitespace becomes one blank
RECURSIVE collapse_whitespace(_)
collapse_whitespace(text) ==
    IF text = <<>> THEN <<>>
    ELSE IF IsSpace(Head(text)) THEN <<32>> \o collapse_whitespace(LStrip(text))
    ELSE <<Head(text)>> \o collapse_whitespace(Tail(text))

\* app.utils.clean_text: the whitespace is collapsed first and the other
\* characters are removed afterwards, so the blanks on the two sides of a
\* removed character stay, also at the ends of the text
clean_text(text) ==
    IF text = <<>> THEN <<>>
    ELSE SelectSeq(collapse_whitespace(strip(text)), Kept)

\* a text whose only whitespace is the blank (32), as the lengths of its
\* stretches between one blank and the next: "ab  c" is <<2, 0, 1>>, " a" is
\* <<0, 1>>
RECURSIVE segments(_)
segments(text) ==
    IF \A i \in DOMAIN text : text[i] # 32 THEN <<Len(text)>>
    ELSE LET k == CHOOSE i \in DOMAIN text :
                      text[i] = 32 /\ \A j \in 1..(i - 1) : text[j] # 32
         IN  <<k - 1>> \o segments(SubSeq(text, k + 1, Len(text)))

----------------------------------------------------------------------------
(* The text splitter on its own.  QASystem hands chunk_size and            *)
(* chunk_overlap to langchain's RecursiveCharacterTextSplitter and calls   *)
(* split_documents on the cleaned documents; the splitter is the library's *)
(* algorithm (separators "\n\n", "\n", " ", "", the separator kept at the  *)
(* start of the following piece, pieces merged up to chunk_size, chunks    *)
(* stripped).  A cleaned document has no whitespace but blanks; it is      *)
(* given by the lengths of its stretches between blanks (segments), which  *)
(* are 0 where clean_text left two blanks in a row or a blank at an end.   *)
(* Positions are character offsets, a chunk is the pair <<start, end>> of  *)
(* the text[start:end] it holds.                                           *)

MaxChunk == 4       \* largest chunk_size of the small configurations
MaxRaw == 7         \* longest raw text of a small document
DocLen == 2500      \* characters of the long documents

SplitterConfigs ==
    {[chunk_size |-> chunk_size, chunk_overlap |-> chunk_overlap]}
    \cup {[chunk_size |-> size, chunk_overlap |-> overlap] :
              size \in 2..MaxChunk, overlap \in 0..(MaxChunk + 1)}

DocLength(doc) == Sum(doc) + Len(doc) - 1
HasSpace(doc) == Len(doc) > 1

\* the cleaned document in which the blank after the first word is doubled
\* and the last word is one character shorter
DoubleBlank(doc) ==
    <<doc[1], 0>> \o SubSeq(doc, 2, Len(doc) - 1) \o <<doc[Len(doc)] - 1>>

\* cleaned documents of DocLen characters: those whose words all have the
\* same length and are one blank apart, and the same with a double blank
UniformDocs ==
    {[i \in 1..((DocLen + 1) \div (w + 1)) |-> w] :
        w \in {x \in 1..DocLen : (DocLen + 1) % (x + 1) = 0}}
LongDocs == UniformDocs \cup {DoubleBlank(doc) : doc \in {d \in UniformDocs : HasSpace(d)}}

\* one character of each kind: a word character (U+03C9, omega), a
\* whitespace (U+1680, which the first re.sub turns into a blank), a
\* character clean_text removes ("$")
DocChars == {969, 5760, 36}

\* the cleaned texts of the raw texts of up to MaxRaw characters
SmallDocs == {segments(clean_text(raw)) : raw \in SeqsUpTo(DocChars, MaxRaw)}

\* _split_text_with_regex: the pieces the chunks are merged from.  A document
\* without a blank is split between its characters, one with blanks before
\* every blank; the empty piece before a leading blank is dropped
NumPieces(doc) ==
    IF HasSpace(doc) THEN Len(doc) - (IF doc[1] = 0 THEN 1 ELSE 0) ELSE doc[1]
PieceLen(doc, i) ==
    IF ~HasSpace(doc) THEN 1
    ELSE IF doc[1] = 0 THEN 1 + doc[i + 1]
    ELSE IF i = 1 THEN doc[1] ELSE 1 + doc[i]

StartsBlank(doc, i) == HasSpace(doc) /\ (doc[1] = 0 \/ i > 1)
AllBlank(doc, i) == StartsBlank(doc, i) /\ PieceLen(doc, i) = 1

\* the blanks text.strip() takes from the start and from the end of the pieces
\* cur..last joined
RECURSIVE LeadingBlanks(_, _, _)
LeadingBlanks(doc, cur, last) ==
    IF cur > last THEN 0
    ELSE IF AllBlank(doc, cur) THEN 1 + LeadingBlanks(doc, cur + 1, last)
    ELSE IF StartsBlank(doc, cur) THEN 1 ELSE 0

RECURSIVE TrailingBlanks(_, _, _)
TrailingBlanks(doc, cur, last) ==
    IF cur > last \/ ~AllBlank(doc, last) THEN 0
    ELSE 1 + TrailingBlanks(doc, cur, last - 1)

\* the pieces of the documents considered are shorter than chunk_size, so no
\* piece is split again
DocsOf(config) ==
    {doc \in (IF config.chunk_size = chunk_size THEN LongDocs ELSE SmallDocs) :
        \A i \in 1..NumPieces(doc) : PieceLen(doc, i) < config.chunk_size}

\* TextSplitter.__init__: "Got a larger chunk overlap than chunk size"
splitter_rejects(size, overlap) == overlap > size

InitChunk ==
    /\ dataDir = [y \in Years |-> NoFile]
    /\ vectorDb = [y \in Years |-> NoIndex]
    /\ vector_stores = [y \in Years |-> NoIndex]
    /\ startup = 1
    /\ h = [r \in Reqs |-> Fresh]
    /\ lastBuilt = {}
    /\ scoreIn = [num_chunks |-> 0, similarity_scores |-> <<>>]
    /\ scoreOut = NotScored
    /\ splitter \in {[NoSplitter EXCEPT !.pc = "new",
                                        !.chunk_size = config.chunk_size,
                                        !.chunk_overlap = config.chunk_overlap,
                                        !.doc = doc] :
                        config \in SplitterConfigs, doc \in LongDocs \cup SmallDocs}
    /\ splitter.doc \in DocsOf(splitter)

Rest == <<World, startup, h, lastBuilt, Scorer>>

\* QASystem.__init__: RecursiveCharacterTextSplitter(chunk_size, chunk_overlap)
Construct ==
    /\ splitter.pc = "new"
    /\ splitter' = [splitter EXCEPT !.pc =
           IF splitter_rejects(splitter.chunk_size, splitter.chunk_overlap)
           THEN "raised" ELSE "ready"]
    /\ UNCHANGED Rest

\* split_documents: the document is cut into pieces, no piece merged yet
SplitDocuments ==
    /\ splitter.pc = "ready"
    /\ splitter' = [splitter EXCEPT !.pc = "merge", !.i = 1, !.cur = 1]
    /\ UNCHANGED Rest

\* _merge_splits: current_doc is the pieces cur..i-1, text[startPos:endPos]
Total == splitter.endPos - splitter.startPos

\* _join_docs: the pieces of current_doc joined and stripped; None when
\* nothing but blanks is in them
JoinIsNone ==
    LeadingBlanks(splitter.doc, splitter.cur, splitter.i - 1) = Total

Chunk ==
    <<splitter.startPos + LeadingBlanks(splitter.doc, splitter.cur, splitter.i - 1),
      splitter.endPos - TrailingBlanks(splitter.doc, splitter.cur, splitter.i - 1)>>

\* _merge_splits, one piece of `for d in splits`: the piece joins current_doc,
\* or current_doc is full and becomes a chunk first
MergeStep ==
    /\ splitter.pc = "merge"
    /\ splitter.i <= NumPieces(splitter.doc)
    /\ LET d == PieceLen(splitter.doc, splitter.i)
       IN  IF Total + d > splitter.chunk_size /\ splitter.cur < splitter.i
           THEN splitter' = [splitter EXCEPT
                    !.docs = IF JoinIsNone THEN @ ELSE Append(@, Chunk),
                    !.pc = "pop"]
           ELSE splitter' = [splitter EXCEPT !.endPos = @ + d, !.i = @ + 1]
    /\ UNCHANGED Rest

\* _merge_splits, one turn of the while loop that drops pieces from the front
\* of current_doc until what is left is the overlap and the new piece fits
PopStep ==
    /\ splitter.pc = "pop"
    /\ LET d == PieceLen(splitter.doc, splitter.i)
       IN  IF \/ Total > splitter.chunk_overlap
              \/ Total + d > splitter.chunk_size /\ Total > 0
           THEN splitter' = [splitter EXCEPT
                    !.startPos = @ + PieceLen(splitter.doc, splitter.cur),
                    !.cur = @ + 1]
           ELSE splitter' = [splitter EXCEPT !.endPos = @ + d, !.i = @ + 1,
                                             !.pc = "merge"]
    /\ UNCHANGED Rest

\* _merge_splits after the loop: what is left in current_doc is the last chunk
Finish ==
    /\ splitter.pc = "merge"
    /\ splitter.i > NumPieces(splitter.doc)
    /\ splitter' = [splitter EXCEPT
           !.docs = IF JoinIsNone THEN @ ELSE Append(@, Chunk),
           !.pc = "done"]
    /\ UNCHANGED Rest

NextChunk == Construct \/ SplitDocuments \/ MergeStep \/ PopStep \/ Finish

SpecChunk == InitChunk /\ [][NextChunk]_vars

----------------------------------------------------------------------------
(* QAService.process_query with the query as text: validation, sanitizing, *)
(* dispatch.  A text is a sequence of characters.                          *)

MaxText == 4        \* longest query text

max_query_length == 1000

\* the blank, a whitespace beyond Latin-1 (U+1680), "a", the removed "<"
QueryChars == {32, 5760, 97, 60}
Texts == SeqsUpTo(QueryChars, MaxText)
NoYear == 0         \* year=None

\* the characters of the class [<>"'] of sanitize_query
Dangerous == {60, 62, 34, 39}
NotDangerous(c) == c \notin Dangerous

sanitize_query_strips_first(query) ==
    IF query = <<>> THEN <<>>
    ELSE LET stripped == strip(query)
             sanitized == SelectSeq(stripped, NotDangerous)
         IN  IF Len(sanitized) > max_query_length
             THEN SubSeq(sanitized, 1, max_query_length)
             ELSE sanitized

\* app.utils.sanitize_query
sanitize_query(query) ==
    IF query = <<>> THEN <<>>
    ELSE LET sanitized == SelectSeq(query, NotDangerous)
         IN  strip(IF Len(sanitized) > max_query_length
                   THEN SubSeq(sanitized, 1, max_query_length)
                   ELSE sanitized)

\* QueryRequest.validate_query raises (min_length, blank, shorter than 3)
validate_query_raises(v) ==
    Len(v) < 1 \/ Len(v) > max_query_length \/ strip(v) = <<>> \/ Len(strip(v)) < 3

query_rejected_only_empty(query) == query = <<>> \/ strip(query) = <<>>

\* process_query: the two checks that raise ValidationError
query_rejected(query) ==
    \/ query = <<>> \/ strip(query) = <<>>
    \/ Len(sanitize_query(query)) < 3

\* the embedding of a query text: a position of the embedding space
embed_query(text) == Len(text) % (MaxQuery + 1)

Rejected(rec) == [rec EXCEPT !.kind = "rejected", !.err = "ValidationError", !.pc = "ret"]

\* process_query(query, year, search_all_years) up to the call of a sub-path
ProcessQuery(r, query, year, search_all_years) ==
    /\ StartupDone
    /\ h[r].pc = "pending"
    /\ event_loop_free
    /\ LET rec == [Fresh EXCEPT !.raw = query, !.reg0 = vector_stores]
           sanitized == sanitize_query(query)
           sent == [rec EXCEPT !.text = sanitized, !.query = embed_query(sanitized)]
       IN  IF query_rejected(query) THEN Set(r, Rejected(rec))
           ELSE IF search_all_years
                THEN Set(r, [sent EXCEPT !.kind = "all", !.todo = Registered,
                                         !.pc = "a_loop"])
                ELSE IF year = NoYear THEN Set(r, Rejected(sent))
                     ELSE Set(r, [sent EXCEPT !.kind = "single", !.year = year,
                                              !.pc = "q_lookup"])
    /\ UNCHANGED <<World, startup, lastBuilt, Scorer, splitter>>

\* a started server with one year missing from the registry
InitQuery ==
    /\ dataDir = [y \in Years |-> IF y = FirstYear THEN NoFile ELSE SmallDoc]
    /\ vectorDb = [y \in Years |-> IF y = FirstYear THEN NoIndex ELSE SmallDoc]
    /\ vector_stores = vectorDb
    /\ startup = Len(available_years) + 1
    /\ h = [r \in Reqs |-> Fresh]
    /\ lastBuilt = {}
    /\ scoreIn = [num_chunks |-> 0, similarity_scores |-> <<>>]
    /\ scoreOut = NotScored
    /\ splitter = NoSplitter

\* POST /api/query with any body, once the event loop takes the request.
\* The request model is built before main.query is entered: a body whose
\* query validate_query raises on is answered by the framework and reaches
\* neither the handler nor process_query, and the query of an accepted body
\* is the value validate_query returns, v.strip()
QueryRequest(r) ==
    /\ h[r].pc = "pending"
    /\ event_loop_free
    /\ \E query \in Texts, year \in Years \cup {NoYear}, search_all_years \in BOOLEAN :
          /\ ~validate_query_raises(query)
          /\ ProcessQuery(r, strip(query), year, search_all_years)

NextQuery ==
    \/ \E r \in Reqs : QueryRequest(r)
    \/ \E r \in Reqs : AllYearsNext(r)
    \/ \E r \in Reqs : AllYearsDone(r)
    \/ \E r \in Reqs : Lookup(r)
    \/ \E r \in Reqs : Retrieve(r)
    \/ \E r \in Reqs : Generate(r)
    \/ \E r \in Reqs : Return(r)

SpecQuery == InitQuery /\ [][NextQuery]_vars

----------------------------------------------------------------------------
(* process_query called with any string: every character sanitize_query     *)
(* removes, and the blank, short and unstripped texts and the texts longer  *)
(* than max_query_length, which the request model of the endpoint turns     *)
(* away or strips but a direct caller can pass.                             *)

\* the blank, "\n", U+1680, "a" and the removed characters
RawChars == {32, 10, 5760, 97} \cup Dangerous

Filler == [i \in 1..max_query_length |-> 97]

\* texts of max_query_length characters and a few more
LongTexts == {pre \o Filler \o suf : pre, suf \in SeqsUpTo(QueryChars, 1)}

RawTexts == SeqsUpTo(RawChars, MaxText) \cup LongTexts

\* QAService.process_query(query, year, search_all_years), any arguments
DirectQuery(r) ==
    /\ h[r].pc = "pending"
    /\ event_loop_free
    /\ \E query \in RawTexts, year \in Years \cup {NoYear}, search_all_years \in BOOLEAN :
          ProcessQuery(r, query, year, search_all_years)

NextSanitize ==
    \/ \E r \in Reqs : DirectQuery(r)
    \/ \E r \in Reqs : AllYearsNext(r)
    \/ \E r \in Reqs : AllYearsDone(r)
    \/ \E r \in Reqs : Lookup(r)
    \/ \E r \in Reqs : Retrieve(r)
    \/ \E r \in Reqs : Generate(r)
    \/ \E r \in Reqs : Return(r)

SpecSanitize == InitQuery /\ [][NextSanitize]_vars

----------------------------------------------------------------------------
(* Every operation of the service on one server: startup, init-data,       *)
(* queries with their validation, statistics and the health check.         *)

RECURSIVE SumOver(_, _)
SumOver(f, S) ==
    IF S = {} THEN 0
    ELSE LET x == CHOOSE y \in S : TRUE IN f[x] + SumOver(f, S \ {x})

EmptyStats == [available_years |-> {}, total_years |-> 0, total_chunks |-> 0]

\* QASystem.get_summary_stats: the keys of the registry and the chunks of its
\* indexes, or the empty statistics when computing them raised
get_summary_stats(ok) ==
    IF ok
    THEN [available_years |-> Registered,
          total_years |-> Cardinality(Registered),
          total_chunks |-> SumOver(vector_stores, Registered)]
    ELSE EmptyStats

\* GET /api/stats: QAService.get_system_stats
Stats(r) ==
    /\ StartupDone
    /\ h[r].pc = "pending"
    /\ event_loop_free
    /\ \E ok \in BOOLEAN :
          Set(r, [Fresh EXCEPT !.kind = "stats", !.reg0 = vector_stores,
                               !.stats = get_summary_stats(ok), !.pc = "ret"])
    /\ UNCHANGED <<World, startup, lastBuilt, Scorer, splitter>>

\* GET /health: QAService.health_check, which asks for the statistics
Health(r) ==
    /\ StartupDone
    /\ h[r].pc = "pending"
    /\ event_loop_free
    /\ \E ok \in BOOLEAN :
          Set(r, [Fresh EXCEPT !.kind = "health", !.reg0 = vector_stores,
                               !.stats = get_summary_stats(ok),
                               !.answer = "healthy", !.pc = "ret"])
    /\ UNCHANGED <<World, startup, lastBuilt, Scorer, splitter>>

\* app.utils.get_available_years: the years of the .pdf and .txt files of the
\* data directory
get_available_years == {y \in DOMAIN dataDir : dataDir[y] # NoFile}

\* GET /api/years
GetYears(r) ==
    /\ StartupDone
    /\ h[r].pc = "pending"
    /\ event_loop_free
    /\ Set(r, [Fresh EXCEPT !.kind = "years", !.reg0 = vector_stores,
                            !.stats = [years |-> get_available_years], !.pc = "ret"])
    /\ UNCHANGED <<World, startup, lastBuilt, Scorer, splitter>>

\* a data directory with two reports, and a vector_db directory with a sound
\* index, none, and a broken one
InitFrame ==
    /\ dataDir = [y \in Years |-> IF y = LastYear THEN NoFile ELSE SmallDoc]
    /\ vectorDb = [y \in Years |-> CASE y = FirstYear -> LargeDoc
                                     [] y = LastYear -> Corrupt
                                     [] OTHER -> NoIndex]
    /\ vector_stores = [y \in Years |-> NoIndex]
    /\ startup = 1
    /\ h = [r \in Reqs |-> Fresh]
    /\ lastBuilt = {}
    /\ scoreIn = [num_chunks |-> 0, similarity_scores |-> <<>>]
    /\ scoreOut = NotScored
    /\ splitter = NoSplitter

NextFrame ==
    \/ LoadExisting
    \/ \E r \in Reqs, force_reprocess \in BOOLEAN : StartInit(r, force_reprocess)
    \/ \E r \in Reqs : InitNext(r)
    \/ \E r \in Reqs : InitDone(r)
    \/ \E r \in Reqs : ProcessLoad(r)
    \/ \E r \in Reqs : ProcessEmbed(r)
    \/ \E r \in Reqs : ProcessSave(r)
    \/ \E r \in Reqs : ProcessRegister(r)
    \/ \E r \in Reqs : QueryRequest(r)
    \/ \E r \in Reqs : AllYearsNext(r)
    \/ \E r \in Reqs : AllYearsDone(r)
    \/ \E r \in Reqs : Lookup(r)
    \/ \E r \in Reqs : Retrieve(r)
    \/ \E r \in Reqs : Generate(r)
    \/ \E r \in Reqs : Stats(r)
    \/ \E r \in Reqs : Health(r)
    \/ \E r \in Reqs : GetYears(r)
    \/ \E r \in Reqs : Return(r)

SpecFrame == InitFrame /\ [][NextFrame]_vars

----------------------------------------------------------------------------
(* The server over several runs: the data directory also holds a report of *)
(* a year that is not in the startup list (extract_year_from_filename      *)
(* accepts 2000..2030), and the process can be restarted.                  *)

OtherYear == LastYear + 1
FileYears == Years \cup {OtherYear}

\* a first run on an empty vector_db directory
InitRestart ==
    /\ dataDir = [y \in FileYears |-> IF y >= LastYear THEN SmallDoc ELSE NoFile]
    /\ vectorDb = [y \in FileYears |-> NoIndex]
    /\ vector_stores = [y \in FileYears |-> NoIndex]
    /\ startup = 1
    /\ h = [r \in Reqs |-> Fresh]
    /\ lastBuilt = {}
    /\ scoreIn = [num_chunks |-> 0, similarity_scores |-> <<>>]
    /\ scoreOut = NotScored
    /\ splitter = NoSplitter

\* the process ends and is started again: memory is lost, the directories stay
Restart ==
    /\ StartupDone
    /\ vector_stores' = [y \in DOMAIN vector_stores |-> NoIndex]
    /\ startup' = 1
    /\ h' = [r \in Reqs |-> Fresh]
    /\ lastBuilt' = {}
    /\ UNCHANGED <<dataDir, vectorDb, Scorer, splitter>>

NextRestart ==
    \/ LoadExisting
    \/ Restart
    \/ \E r \in Reqs, force_reprocess \in BOOLEAN : StartInit(r, force_reprocess)
    \/ \E r \in Reqs : InitNext(r)
    \/ \E r \in Reqs : InitDone(r)
    \/ \E r \in Reqs : ProcessLoad(r)
    \/ \E r \in Reqs : ProcessEmbed(r)
    \/ \E r \in Reqs : ProcessSave(r)
    \/ \E r \in Reqs : ProcessRegister(r)
    \/ \E r \in Reqs : Return(r)

SpecRestart == InitRestart /\ [][NextRestart]_vars

----------------------------------------------------------------------------
(* A vector_db directory left by earlier runs, some of them with another   *)
(* embedding model configured: such an index is a well-formed FAISS store  *)
(* whose vectors have another dimensionality than the model of this run.   *)

Mismatched == -3    \* a readable vector_db_<year> of another dimensionality

InitStored ==
    /\ dataDir = [y \in Years |-> SmallDoc]
    /\ vectorDb \in [Years -> {NoIndex, Corrupt, Mismatched, SmallDoc}]
    /\ vector_stores = [y \in Years |-> NoIndex]
    /\ startup = 1
    /\ h = [r \in Reqs |-> Fresh]
    /\ lastBuilt = {}
    /\ scoreIn = [num_chunks |-> 0, similarity_scores |-> <<>>]
    /\ scoreOut = NotScored
    /\ splitter = NoSplitter

SpecStored == InitStored /\ [][NextRestart]_vars

----------------------------------------------------------------------------
(* The data directory file by file: upload, deletion, cleanup and init-data *)
(* on one server.  A file name is its year digits (NoYear when it has       *)
(* none), its extension, the counter upload_file appended to make it unique *)
(* (0 for none) and whether all its characters are safe; a file is its      *)
(* number of chunks of text and whether it exceeds max_file_size.  In this  *)
(* specification dataDir maps the names of the directory to their files.    *)

MaxFiles == 3       \* most files the data directory holds
MaxCopy == 1        \* largest counter upload_file tries for a unique name

allowed_file_types == {".pdf"}
SourceTypes == {".pdf", ".txt"}

Name(year, ext, copy, safe) == [year |-> year, ext |-> ext, copy |-> copy, safe |-> safe]
File(chunks, oversize) == [chunks |-> chunks, oversize |-> oversize]

\* sample_data.create_sample_apple_reports: apple_annual_report_<year>.txt
SampleNames == {Name(y, ".txt", 0, TRUE) : y \in Years}

\* what a client can send to the upload and delete endpoints
\* year digits out of 2000..2030 whose first two digits read as LastYear
MisreadYear == 100 * (LastYear % 100)

ClientNames ==
    {Name(y, ext, 0, safe) : y \in {LastYear, NoYear}, ext \in SourceTypes,
                             safe \in BOOLEAN}
        \cup {Name(MisreadYear, ".pdf", 0, TRUE)}
ClientFiles == {File(chunks, oversize) : chunks \in {0, SmallDoc}, oversize \in BOOLEAN}

listdir == DOMAIN dataDir

\* app.utils.create_safe_filename: every unsafe character becomes "_"
create_safe_filename(name) == [name EXCEPT !.safe = TRUE]

RECURSIVE NumDigits(_)
NumDigits(n) == IF n < 10 THEN 1 ELSE 1 + NumDigits(n \div 10)

\* the number the first k digits of n spell, for n of at least k digits
RECURSIVE FirstDigits(_, _)
FirstDigits(n, k) == IF NumDigits(n) <= k THEN n ELSE FirstDigits(n \div 10, k)

\* the runs of digits of a name from left to right, each as the number it
\* spells (no run begins with 0): the year digits, then the counter
\* upload_file appended
digit_runs(name) ==
    (IF name.year # NoYear THEN <<name.year>> ELSE <<>>)
        \o (IF name.copy # 0 THEN <<name.copy>> ELSE <<>>)

\* re.search(r'(\d{k})', filename): the first k digits in a row, None without
RECURSIVE search_digits(_, _)
search_digits(runs, k) ==
    IF runs = <<>> THEN None
    ELSE IF NumDigits(Head(runs)) >= k THEN FirstDigits(Head(runs), k)
    ELSE search_digits(Tail(runs), k)

year_in_range(year) == year >= 2000 /\ year <= 2030

\* app.utils.extract_year_from_filename: the patterns are tried in turn and
\* the first whose match is a year of 2000..2030 decides; a match out of
\* range does not end the search.  The patterns fiscal[_\s]*(\d{4}) and
\* annual[_\s]*(\d{4}) can only match the four digits (\d{4}) has matched
\* before them, the digits of a name being its year digits and its counter.
extract_year_from_filename(name) ==
    LET four == search_digits(digit_runs(name), 4)
        two == search_digits(digit_runs(name), 2)
    IN  IF four # None /\ year_in_range(four) THEN four
        ELSE IF two # None /\ year_in_range(two + 2000) THEN two + 2000
        ELSE NoYear

\* app.utils.validate_file_upload raises: too large, or a type not allowed
validate_file_upload_raises(name, file) ==
    file.oversize \/ name.ext \notin allowed_file_types

\* the names a file of the directory can have
DirNames ==
    SampleNames
        \cup {[create_safe_filename(n) EXCEPT !.copy = c] :
                  n \in ClientNames, c \in 0..(MaxCopy + 1)}

\* extract_year_from_filename(filename) for every filename of os.listdir
year_of == [n \in DirNames |-> extract_year_from_filename(n)]

\* the files get_pdf_paths maps to a year
IsSourceFile(name) == name.ext \in SourceTypes /\ year_of[name] # NoYear

source_years == {year_of[n] : n \in {m \in listdir : IsSourceFile(m)}}

\* app.utils.get_pdf_paths: year -> one of the year's files, the one
\* os.listdir happens to list last
get_pdf_paths ==
    {paths \in [source_years -> listdir] :
        \A y \in source_years :
            IsSourceFile(paths[y]) /\ year_of[paths[y]] = y}

WithFile(dir, name, file) ==
    [n \in DOMAIN dir \cup {name} |-> IF n = name THEN file ELSE dir[n]]
Without(dir, names) == [n \in DOMAIN dir \ names |-> dir[n]]

\* upload_file: the first of name, name_1, name_2, ... that does not exist
unique_filename(name) ==
    IF name \notin listdir THEN name
    ELSE LET free == {c \in 1..(MaxCopy + 1) : [name EXCEPT !.copy = c] \notin listdir}
         IN  [name EXCEPT !.copy = CHOOSE c \in free : \A d \in free : c <= d]

\* a data directory after sample_data ran, with some of its reports removed,
\* a server that started on an empty vector_db directory
InitFiles ==
    /\ dataDir \in UNION {[S -> {File(SmallDoc, FALSE)}] : S \in SUBSET SampleNames}
    /\ vectorDb = [y \in Years |-> NoIndex]
    /\ vector_stores = [y \in Years |-> NoIndex]
    /\ startup = Len(available_years) + 1
    /\ h = [r \in Reqs |-> Fresh]
    /\ lastBuilt = {}
    /\ scoreIn = [num_chunks |-> 0, similarity_scores |-> <<>>]
    /\ scoreOut = NotScored
    /\ splitter = NoSplitter

Others == <<startup, lastBuilt, Scorer, splitter>>

\* POST /api/upload-pdf: FileService.upload_file writes the file under a
\* unique safe name, validates it and removes it again when it is invalid
Upload(r) ==
    /\ h[r].pc = "pending"
    /\ event_loop_free
    /\ Cardinality(listdir) < MaxFiles
    /\ \E filename \in ClientNames, file_content \in ClientFiles :
          LET file_path == unique_filename(create_safe_filename(filename))
              rec == [Fresh EXCEPT !.kind = "upload", !.files = {file_path}, !.pc = "ret"]
          IN  /\ file_path.copy <= MaxCopy
              /\ IF validate_file_upload_raises(file_path, file_content)
                 THEN /\ UNCHANGED dataDir
                      /\ Set(r, [rec EXCEPT !.err = "FileUploadError"])
                 ELSE /\ dataDir' = WithFile(dataDir, file_path, file_content)
                      /\ Set(r, rec)
    /\ UNCHANGED <<vectorDb, vector_stores, Others>>

\* DELETE /api/files/{filename}: FileService.delete_file
DeleteFile(r) ==
    /\ h[r].pc = "pending"
    /\ event_loop_free
    /\ \E filename \in listdir \cup ClientNames :
          LET file_path == create_safe_filename(filename)
              rec == [Fresh EXCEPT !.kind = "delete", !.files = {file_path}, !.pc = "ret"]
          IN  IF file_path \notin listdir
              THEN /\ UNCHANGED dataDir
                   /\ Set(r, [rec EXCEPT !.err = "FileUploadError"])
              ELSE /\ dataDir' = Without(dataDir, {file_path})
                   /\ Set(r, rec)
    /\ UNCHANGED <<vectorDb, vector_stores, Others>>

\* POST /api/files/cleanup: FileService.cleanup_orphaned_files removes every
\* file of the upload directory that validate_file_upload turns down
CleanupFiles(r) ==
    /\ h[r].pc = "pending"
    /\ event_loop_free
    /\ LET cleaned_files == {n \in listdir : validate_file_upload_raises(n, dataDir[n])}
       IN  /\ dataDir' = Without(dataDir, cleaned_files)
           /\ Set(r, [Fresh EXCEPT !.kind = "cleanup", !.files = cleaned_files,
                                   !.pc = "ret"])
    /\ UNCHANGED <<vectorDb, vector_stores, Others>>

\* what one iteration of initialize_data's loop leaves for a year: the
\* persisted index, a newly built one, or nothing for a file without content
EntryOf(year, file, force_reprocess) ==
    IF should_load(year, force_reprocess) THEN load_local(year)
    ELSE IF file.chunks = 0 THEN NoIndex ELSE file.chunks

Builds(year, file, force_reprocess) ==
    ~should_load(year, force_reprocess) /\ file.chunks \notin {0, NoChunks}

\* FAISS.from_documents is handed no chunk and raises
BuildRaises(year, file, force_reprocess) ==
    ~should_load(year, force_reprocess) /\ file.chunks = NoChunks

\* POST /api/init-data as one step: the years `done` are loaded or built, in
\* the order of the dictionary, until the loop ends or the year `stop` raises;
\* a save that raises can leave a broken vector_db path behind
InitDataFiles(r) ==
    /\ h[r].pc = "pending"
    /\ event_loop_free
    /\ \E force_reprocess \in BOOLEAN, pdf_path \in get_pdf_paths,
          stop \in source_years \cup {NoYear}, done \in SUBSET source_years,
          broken \in BOOLEAN :
          LET file(y) == dataDir[pdf_path[y]]
              built == {y \in done : Builds(y, file(y), force_reprocess)}
              rec == [Fresh EXCEPT !.kind = "init", !.force = force_reprocess,
                                   !.reg0 = vector_stores,
                                   !.files = {pdf_path[y] : y \in source_years},
                                   !.built = built,
                                   !.loaded = {y \in done : should_load(y, force_reprocess)},
                                   !.todo = source_years \ (done \cup {stop}),
                                   !.pc = "ret"]
          IN  /\ stop = NoYear => done = source_years
              /\ stop \notin done
              /\ \A y \in done :
                    /\ should_load(y, force_reprocess) => load_local(y) # Corrupt
                    /\ ~BuildRaises(y, file(y), force_reprocess)
              /\ broken => (stop # NoYear /\ Builds(stop, file(stop), force_reprocess))
              /\ vector_stores' =
                    [y \in Years |->
                        IF y \in done /\ EntryOf(y, file(y), force_reprocess) # NoIndex
                        THEN EntryOf(y, file(y), force_reprocess)
                        ELSE vector_stores[y]]
              /\ vectorDb' =
                    [y \in Years |->
                        IF y \in built THEN file(y).chunks
                        ELSE IF broken /\ y = stop THEN Corrupt
                        ELSE vectorDb[y]]
              /\ Set(r, IF stop = NoYear THEN rec
                        ELSE InitFailed([rec EXCEPT !.year = stop], "Exception"))
    /\ UNCHANGED <<dataDir, Others>>

NextFiles ==
    \/ \E r \in Reqs : Upload(r)
    \/ \E r \in Reqs : DeleteFile(r)
    \/ \E r \in Reqs : CleanupFiles(r)
    \/ \E r \in Reqs : InitDataFiles(r)
    \/ \E r \in Reqs : Return(r)

SpecFiles == InitFiles /\ [][NextFiles]_vars

----------------------------------------------------------------------------
(* The Documents _process_pdf_for_year makes of a source file, and the      *)
(* metadata their chunks carry.  A source file is the path get_pdf_paths    *)
(* returned for it and, for every page the loader reads, the number of      *)
(* chunks the page's cleaned text is split into: 0 for a page whose cleaned *)
(* text is blank.  A .txt file is read as one page.  The chunks of a file   *)
(* are numbered 1, 2, ... in the order split_documents produces them.       *)

MaxPages == 3       \* most pages of a .pdf report

upload_directory == "data"

\* os.path.join(data_dir, filename)
join(data_dir, filename) == <<data_dir, filename>>

SourceFile(filename, pages) ==
    [path |-> join(upload_directory, filename), pages |-> pages]

\* the 'page' PyPDFLoader gave the page that holds chunk c: pages count from
\* 0, and a page without content makes no Document and no chunk
RECURSIVE pdf_page(_, _, _)
pdf_page(pages, i, c) ==
    IF c <= pages[i] THEN i - 1 ELSE pdf_page(pages, i + 1, c - pages[i])

\* the 'page' in the metadata of chunk c: split_documents copies the metadata
\* of the Document a chunk is cut from
chunk_page(file, c) ==
    IF file.path[2].ext = ".txt" THEN 1 ELSE pdf_page(file.pages, 1, c)

\* _process_pdf_for_year: chunk c of the file, with the metadata of its Document
Document(file, c, year) ==
    [page_content |-> c,
     metadata |-> [source |-> file.path, page |-> chunk_page(file, c),
                   year |-> year]]

\* the ways a report of `chunks` chunks is laid out on at most MaxPages pages
Layouts(chunks) ==
    {pages \in SeqsUpTo(0..chunks, MaxPages) : pages # <<>> /\ Sum(pages) = chunks}

\* the source files an index of `chunks` vectors of the year can have been
\* built from: the report sample_data writes, or a .pdf report
Reports(year, chunks) ==
    {SourceFile(Name(year, ".txt", 0, TRUE), <<chunks>>)}
        \cup {SourceFile(Name(year, ".pdf", 0, TRUE), pages) : pages \in Layouts(chunks)}

----------------------------------------------------------------------------
(* Properties *)

BuildStages == {"p_load", "p_embed", "p_save", "p_register"}
Building(r) == h[r].kind = "init" /\ h[r].pc \in BuildStages
Returning(r, kind) == h[r].kind = kind /\ h[r].pc = "ret"
ResultYears(r) == {res.year : res \in h[r].results}

\* C1: ask_question_all_years never fails because single years fail: it
\* returns only when every registered year has been visited, and the keys of
\* the returned map are exactly the registered years whose sub-query did not
\* raise.
C1_AllYearsOmitsFailedYears ==
    \A r \in Reqs : Returning(r, "all") =>
        /\ h[r].err = "" /\ h[r].exc = ""
        /\ h[r].todo = {}
        /\ h[r].failed \subseteq Registered
        /\ ResultYears(r) = Registered \ h[r].failed
        /\ Cardinality(h[r].results) = Cardinality(ResultYears(r))

C1_Witness ==
    \E r \in Reqs :
        /\ Returning(r, "all")
        /\ Registered = Years
        /\ h[r].failed = {FirstYear + 1}
        /\ ResultYears(r) = {FirstYear, LastYear}

\* C2: a single-year query for a year that is not a key of the registry fails
\* with the no-data error, calls neither the retriever nor the language model
\* and leaves the registry as it was.
C2_UnknownYearFails ==
    \A r \in Reqs : (Returning(r, "single") /\ h[r].reg0[h[r].year] = NoIndex) =>
        /\ h[r].exc = "NoDataAvailable"
        /\ h[r].err = "QueryProcessingError"
        /\ ~h[r].calledRetriever
        /\ ~h[r].calledLLM
        /\ vector_stores = h[r].reg0

C2_Witness ==
    \E r \in Reqs :
        /\ Returning(r, "single")
        /\ h[r].exc = "NoDataAvailable"
        /\ vector_stores[h[r].year] = NoIndex
        /\ Registered # {}

\* C3: the registry starts empty and an entry is only ever written by a
\* successful load_local (at startup or in initialize_data) or by the register
\* step that follows a successful build and save; what is written is a whole
\* index, the one persisted for that year.  A failed load or build writes none.
C3_RegistryOnlyFromSuccess ==
    /\ \A y \in Years : vector_stores[y] = NoIndex
    /\ [][\A y \in Years : vector_stores'[y] # vector_stores[y] =>
            /\ vector_stores'[y] \in Indexes
            /\ vectorDb'[y] = vector_stores'[y]
            /\ \/ ~StartupDone /\ available_years[startup] = y /\ vectorDb[y] \in Indexes
               \/ \E r \in Reqs :
                    /\ h[r].kind = "init" /\ h[r].pc = "i_loop" /\ ~h[r].force
                    /\ y \in h'[r].loaded /\ vectorDb[y] \in Indexes
               \/ \E r \in Reqs :
                    /\ h[r].kind = "init" /\ h[r].pc = "p_register"
                    /\ h[r].year = y /\ h[r].vs = vector_stores'[y]]_vars

C3_Witness ==
    \E r \in Reqs, y \in Years :
        /\ Returning(r, "init")
        /\ h[r].exc \in {"EmbeddingServiceError", "PersistenceError"}
        /\ vector_stores[h[r].year] = NoIndex
        /\ y # h[r].year
        /\ vectorDb[y] = Corrupt /\ vector_stores[y] = NoIndex
        /\ Registered # {}

\* C4: while a build of year Y is in progress the registry entry of Y is still
\* the complete index (or the absence) found when the build began; the new
\* index reaches the registry in the one register step, which is reached only
\* with the index embedded, constructed and persisted.
C4_RebuildSwapsOnSuccess ==
    \A r \in Reqs : Building(r) =>
        /\ vector_stores[h[r].year] = h[r].old
        /\ h[r].old \in Indexes \cup {NoIndex}
        /\ h[r].pc = "p_register" =>
              /\ h[r].vs \in Indexes
              /\ vectorDb[h[r].year] = h[r].vs

C4_Witness ==
    \E r \in Reqs :
        /\ Building(r) /\ h[r].force
        /\ h[r].pc = "p_register"
        /\ h[r].old \in Indexes
        /\ h[r].vs # h[r].old
        /\ vector_stores[h[r].year] = h[r].old

\* C5: at most one build of a year is in flight: while a handler builds, no
\* other handler builds the same year, and a second init-data request cannot
\* start; it waits for the first to return.
C5_OneBuildPerYear ==
    /\ \A y \in Years : Cardinality({r \in Reqs : Building(r) /\ h[r].year = y}) <= 1
    /\ \A r1, r2 \in Reqs : (Building(r1) /\ r2 # r1) =>
          /\ h[r2].pc = "pending"
          /\ \A f \in BOOLEAN : ~ENABLED StartInit(r2, f)

C5_Witness ==
    \E r1, r2 \in Reqs :
        /\ r1 # r2
        /\ Building(r1) /\ h[r1].pc = "p_save"
        /\ h[r1].built # {}
        /\ h[r2].pc = "pending"

\* C6: of two initialize_data(force_reprocess=false) calls in succession, the
\* second builds no year the first one built: it finds the persisted index and
\* loads it.
C6_SecondInitLoads ==
    \A r \in Reqs : (h[r].kind = "init" /\ ~h[r].force) =>
        /\ h[r].built \cap lastBuilt = {}
        /\ Building(r) => h[r].year \notin lastBuilt
        /\ (h[r].pc = "ret" /\ h[r].err = "") => lastBuilt \subseteq h[r].loaded
        /\ \A y \in h[r].built \cup lastBuilt : vectorDb[y] \in Indexes

C6_Witness ==
    \E r \in Reqs :
        /\ Returning(r, "init") /\ ~h[r].force /\ h[r].err = ""
        /\ lastBuilt # {}
        /\ lastBuilt \subseteq h[r].loaded
        /\ h[r].built = {}

InRange(c) == RLe(R(0, 1), c) /\ RLe(c, R(1, 1))

\* C7: the confidence returned by _calculate_confidence and by
\* calculate_confidence_score lies in [0,1] for every num_chunks and every
\* list of scores, scores below 0 and above 1 included.
C7_ConfidenceInRange ==
    /\ "qa" \in scoreOut.done => InRange(scoreOut.qa)
    /\ "util" \in scoreOut.done => InRange(scoreOut.util)

C7_Witness ==
    /\ scoreOut.done = {"qa", "util"}
    /\ \E i \in DOMAIN scoreIn.similarity_scores : scoreIn.similarity_scores[i] < 0
    /\ Sum(scoreIn.similarity_scores) < 0
    /\ scoreIn.num_chunks = 1
    /\ scoreOut.qa = R(0, 1)

\* 50 * len * Scale times 0.7 * mean(scores) + 0.3 * min(n / 5, 1), clamped to
\* [0, 50 * len * Scale]
ExpectedTimes(n, scores) ==
    LET whole == 50 * Len(scores) * Scale
        raw == 35 * Sum(scores) + 3 * Min(n, 5) * Len(scores) * Scale
    IN  Max(0, Min(raw, whole))

\* C8: the confidence is 0.0 when no score was retrieved and otherwise
\* clamp[0,1](0.7 * mean(scores) + 0.3 * min(n / 5, 1)); five scores of 1.0
\* give exactly 1.0 and a single score s gives 0.7 * s + 0.06.
C8_ConfidenceFormula ==
    "qa" \in scoreOut.done =>
        LET n == scoreIn.num_chunks
            scores == scoreIn.similarity_scores
            c == scoreOut.qa
        IN  /\ scores = <<>> => c = R(0, 1)
            /\ scores # <<>> =>
                  c.num * (50 * Len(scores) * Scale) = ExpectedTimes(n, scores) * c.den
            /\ (n = 5 /\ scores = [i \in 1..5 |-> Scale]) => c = R(1, 1)
            /\ (n = 1 /\ Len(scores) = 1 /\ scores[1] \in 0..Scale) =>
                  c.num * (100 * Scale) = (70 * scores[1] + 6 * Scale) * c.den

C8_Witness ==
    /\ "qa" \in scoreOut.done
    /\ scoreIn.num_chunks = 5
    /\ scoreIn.similarity_scores = [i \in 1..5 |-> Scale]
    /\ scoreOut.qa = R(1, 1)

\* C9: a successful single-year query returns min(max_chunks_per_query, number
\* of vectors of the year's index) citations, all of them distinct chunks of
\* that index.
C9_CitationCount ==
    \A r \in Reqs : (Returning(r, "single") /\ h[r].err = "") =>
        /\ Len(h[r].citations) = Min(max_chunks_per_query, vector_stores[h[r].year])
        /\ Cardinality({h[r].citations[i] : i \in DOMAIN h[r].citations})
              = Len(h[r].citations)
        /\ \A i \in DOMAIN h[r].citations : h[r].citations[i] \in 1..vector_stores[h[r].year]

C9_Witness ==
    \E r \in Reqs :
        /\ Returning(r, "single") /\ h[r].err = ""
        /\ vector_stores[h[r].year] > max_chunks_per_query
        /\ Len(h[r].citations) = max_chunks_per_query

\* C10: when the language model fails after a successful retrieval, the
\* single-year query succeeds with the fallback answer, and its citations and
\* confidence are those the retrieval alone determines.
C10_LlmFailureFallsBack ==
    \A r \in Reqs : (Returning(r, "single") /\ h[r].llmFailed) =>
        LET docs == similarity_search_with_score(
                        vector_stores[h[r].year], h[r].query, max_chunks_per_query)
        IN  /\ h[r].err = "" /\ h[r].exc = ""
            /\ h[r].answer = Fallback
            /\ h[r].citations = [i \in 1..Len(docs) |-> docs[i][1]]
            /\ h[r].confidence =
                  calculate_confidence(Len(docs), [i \in 1..Len(docs) |-> Scale - docs[i][2]])

C10_Witness ==
    \E r \in Reqs :
        /\ Returning(r, "single") /\ h[r].llmFailed
        /\ h[r].answer = Fallback
        /\ Len(h[r].citations) = SmallDoc
        /\ h[r].confidence # R(0, 1)

\* a query that is empty, blank or shorter than 3 characters once trimmed
TooShort(query) == Len(strip(query)) < 3

Dispatched(rec) ==
    \/ rec.kind \in {"single", "all"}
    \/ rec.todo # {} \/ rec.exc # ""
    \/ rec.calledRetriever \/ rec.calledLLM

\* C11: process_query answers a query that is empty, blank or shorter than 3
\* characters once trimmed with ValidationError in its first step, before any
\* dispatch: no registry lookup, no retrieval, no language-model call.  The
\* sub-paths validate nothing: ValidationError arises in no later step.
C11_ValidationBeforeDispatch ==
    [][\A r \in Reqs :
          /\ (h'[r].pc # "pending" /\ TooShort(h'[r].raw)) =>
                /\ h[r].pc = "pending"
                /\ h'[r].pc = "ret" /\ h'[r].err = "ValidationError"
                /\ ~Dispatched(h'[r])
          /\ (h'[r].err = "ValidationError" /\ h[r].pc # "pending") =>
                (h[r].pc = "ret" /\ h[r].err = "ValidationError")]_vars

C11_Witness ==
    \E r1, r2 \in Reqs :
        /\ h[r1].pc = "ret" /\ h[r1].err = "ValidationError"
        /\ h[r1].raw = <<5760, 97, 97, 32>>
        /\ h[r2].pc = "pending"

\* what the startup loop has to leave in the registry for a year
StartupEntry(db, y) == IF db[y] \in Indexes THEN db[y] ELSE NoIndex

\* C12: a year whose persisted index fails to load never aborts the
\* construction of QASystem: every step of the startup loop goes on to the
\* next year whatever the load did, the loop can always take its next step,
\* and when it ends each year with a loadable index is in the registry and
\* each year whose load failed (or that has no index) is absent.
C12_StartupSurvivesFailedLoad ==
    /\ [](~StartupDone => ENABLED LoadExisting)
    /\ [][~StartupDone =>
            /\ startup' = startup + 1
            /\ vectorDb' = vectorDb
            /\ \A i \in 1..startup :
                  vector_stores'[available_years[i]] = StartupEntry(vectorDb, available_years[i])
            /\ StartupDone' =>
                  \A y \in Years : vector_stores'[y] = StartupEntry(vectorDb, y)]_vars

C12_Witness ==
    /\ StartupDone
    /\ \A r \in Reqs : h[r] = Fresh
    /\ \E y1, y2 \in Years :
          /\ y1 < y2
          /\ vectorDb[y1] = Corrupt /\ vector_stores[y1] = NoIndex
          /\ vectorDb[y2] \in Indexes /\ vector_stores[y2] = vectorDb[y2]

\* C13: when startup ends, every year that has a loadable persisted index is
\* registered with that index, a year built by an earlier initialize_data
\* included.  (The startup loop visits the years 2021..2023 only, so this
\* fails for a persisted index of any other year.)
C13_StartupLoadsEveryPersistedYear ==
    [][(~StartupDone /\ StartupDone') =>
          \A y \in DOMAIN vectorDb :
              vectorDb[y] \in Indexes => vector_stores'[y] = vectorDb[y]]_vars

\* the failing case: the index of OtherYear was built and registered in an
\* earlier run and is still persisted, and a finished startup has not loaded it
C13_PersistedYearNotLoaded ==
    /\ StartupDone
    /\ \A r \in Reqs : h[r] = Fresh
    /\ vectorDb[OtherYear] \in Indexes
    /\ vector_stores[OtherYear] = NoIndex
    /\ vectorDb[LastYear] \in Indexes
    /\ vector_stores[LastYear] = vectorDb[LastYear]

\* the kind the error taxonomy gives a failure of the single-year path
TaxonomyTag(exc) ==
    CASE exc = "NoDataAvailable" -> "IndexNotFound"
      [] exc = "RetrievalError" -> "EmbeddingServiceError"
      [] OTHER -> exc

\* C14: a failure of the single-year path reaches the caller of process_query
\* with its own kind: index-not-found for an absent year, embedding-service
\* error for a failed embedding of the query.  (Every exception leaves
\* _process_single_year_query as QueryProcessingError, so this fails.)
C14_ErrorKindIntact ==
    \A r \in Reqs : (Returning(r, "single") /\ h[r].exc # "") =>
        h[r].err = TaxonomyTag(h[r].exc)

\* the failing case: a failed retrieval is reported with the same kind as an
\* absent year
C14_KindsCollapsed ==
    \E r \in Reqs :
        /\ Returning(r, "single")
        /\ h[r].exc = "RetrievalError"
        /\ h[r].err = "QueryProcessingError"

\* C15: every similarity score handed to the confidence scorer lies in [0,1]
\* (0..Scale in units of 1/Scale), and a passage at a smaller distance has the
\* higher score.  (The score is 1 - distance, which is negative for a distance
\* above 1, so the range fails.)
C15_ScoresNormalized ==
    \A r \in Reqs :
        LET scores == h[r].scores
        IN  /\ \A i \in DOMAIN scores : 0 <= scores[i] /\ scores[i] <= Scale
            /\ \A i, j \in DOMAIN scores : i <= j => scores[i] >= scores[j]

\* the failing case: a query that succeeded on scores below 0
C15_NegativeScore ==
    \E r \in Reqs :
        /\ Returning(r, "single") /\ h[r].err = ""
        /\ \E i \in DOMAIN h[r].scores :
              /\ h[r].scores[i] < 0
              /\ Distance(h[r].citations[i], h[r].query) > Scale

\* C16: while a handler builds year A, a waiting single-year query for a
\* registered year B # A can start (and then run to its return before the
\* build ends).  (The build holds the event loop until its handler returns,
\* so no query starts while it runs.)
C16_QueryNotBlockedByBuild ==
    \A r1, r2 \in Reqs, B \in Years :
        (/\ Building(r1) /\ h[r1].year # B
         /\ vector_stores[B] # NoIndex
         /\ h[r2].pc = "pending") =>
            \E query \in 0..MaxQuery : ENABLED StartQuery(r2, B, query)

\* the failing case: a build of one year at its embedding step, another year
\* registered, and a request waiting
C16_QueryWaitsForBuild ==
    \E r1, r2 \in Reqs, B \in Years :
        /\ Building(r1) /\ h[r1].pc = "p_embed" /\ h[r1].year # B
        /\ vector_stores[B] \in Indexes
        /\ h[r2].pc = "pending"
        /\ \A query \in 0..MaxQuery : ~ENABLED StartQuery(r2, B, query)

DefaultSplitter ==
    splitter.chunk_size = chunk_size /\ splitter.chunk_overlap = chunk_overlap

\* the fixed-stride window number k of a text of n characters
Window(k, n) ==
    <<(k - 1) * (chunk_size - chunk_overlap),
      Min((k - 1) * (chunk_size - chunk_overlap) + chunk_size, n)>>

\* C17: with chunk_size 1000 and overlap 200 a document of 2500 characters is
\* split into exactly the three chunks 0-1000, 800-1800 and 1600-2500: each
\* starts chunk_size - overlap after the one before, consecutive chunks
\* share at least 200 characters and the last, partial one is emitted.  (The
\* splitter cuts between words and strips the chunks, so this holds only for
\* a document without a space.)
C17_FixedStrideWindows ==
    (splitter.pc = "done" /\ DefaultSplitter /\ DocLength(splitter.doc) = DocLen) =>
        /\ Len(splitter.docs) = 3
        /\ \A k \in 1..3 : splitter.docs[k] = Window(k, DocLen)
        /\ \A k \in 1..2 : splitter.docs[k][2] - splitter.docs[k + 1][1] >= chunk_overlap

\* the failing case: a document of words, whose second chunk starts elsewhere
\* and shares fewer than 200 characters with the first
C17_ChunksFollowWords ==
    /\ splitter.pc = "done" /\ DefaultSplitter
    /\ DocLength(splitter.doc) = DocLen
    /\ HasSpace(splitter.doc)
    /\ Len(splitter.docs) >= 2
    /\ splitter.docs[2][1] # chunk_size - chunk_overlap
    /\ splitter.docs[1][2] - splitter.docs[2][1] < chunk_overlap

\* C18: a splitter whose chunk_overlap is greater than or equal to its
\* chunk_size is rejected at construction and never produces a chunk.  (The
\* constructor rejects only an overlap greater than chunk_size.)
C18_OverlapNotBelowSizeRejected ==
    splitter.chunk_overlap >= splitter.chunk_size =>
        /\ splitter.pc \in {"new", "raised"}
        /\ splitter.docs = <<>>

\* the failing case: overlap equal to chunk_size, and the document is chunked
C18_EqualOverlapAccepted ==
    /\ splitter.pc = "done"
    /\ splitter.chunk_overlap = splitter.chunk_size
    /\ Len(splitter.docs) > 1

\* C19: a load registers a persisted index only after validating it: a stored
\* index whose dimensionality does not match the configured embedding model
\* never becomes a registry entry.  (load_local's result is registered as it
\* is, at startup and in initialize_data, so this fails.)
C19_LoadValidatesIntegrity ==
    \A y \in DOMAIN vector_stores : vector_stores[y] # Mismatched

\* the failing case: startup has ended with a mismatched index registered
\* beside a sound one
C19_MismatchedRegistered ==
    /\ StartupDone
    /\ \E y1, y2 \in Years :
          /\ vector_stores[y1] = Mismatched
          /\ vector_stores[y2] \in Indexes

\* a handler that returns because _process_pdf_for_year raised
BuildFailed(r) ==
    /\ Returning(r, "init")
    /\ \/ h[r].exc \in {"DocumentLoadError", "EmbeddingServiceError", "IndexError"}
       \/ h[r].exc = "PersistenceError" /\ h[r].vs # NoIndex

\* C21: when the build of year Y fails in initialize_data (loading the
\* document, embedding and index construction, or saving raises), the registry
\* entry of Y is what it was when the call began, the old index or absent,
\* and the call ends with the error raised to its caller; the entry of Y
\* changes at no step of a build before the register step.
C21_FailedBuildKeepsEntry ==
    \A r \in Reqs :
        /\ Building(r) => vector_stores[h[r].year] = h[r].reg0[h[r].year]
        /\ BuildFailed(r) =>
              /\ vector_stores[h[r].year] = h[r].reg0[h[r].year]
              /\ h[r].err = "QueryProcessingError"
              /\ h[r].year \notin h[r].built

C21_Witness ==
    \E r \in Reqs :
        /\ BuildFailed(r) /\ h[r].force
        /\ h[r].exc = "PersistenceError"
        /\ h[r].reg0[h[r].year] \in Indexes
        /\ h[r].vs \in Indexes /\ h[r].vs # h[r].reg0[h[r].year]
        /\ vector_stores[h[r].year] = h[r].reg0[h[r].year]
        /\ vectorDb[h[r].year] = Corrupt

\* C22: whenever the load of a year's persisted index fails because the
\* index is corrupt or unreadable, in the startup loop or in
\* initialize_data(force_reprocess=false), the year is not in the registry
\* after that step and the loop goes on with its remaining years.  (In
\* initialize_data the exception of load_local leaves the loop and the call:
\* the years not yet visited are skipped and an entry the year already had
\* stays, so this holds for the startup loop only.)
C22_FailedLoadDropsYearAndContinues ==
    [][
        /\ (~StartupDone /\ load_local(available_years[startup]) = Corrupt) =>
              /\ startup' = startup + 1
              /\ vector_stores'[available_years[startup]] = NoIndex
        /\ \A r \in Reqs :
              (/\ h[r].kind = "init" /\ h[r].pc = "i_loop"
               /\ h'[r].year \in h[r].todo
               /\ should_load(h'[r].year, h[r].force)
               /\ load_local(h'[r].year) = Corrupt) =>
                  /\ h'[r].pc = "i_loop" /\ h'[r].err = ""
                  /\ vector_stores'[h'[r].year] = NoIndex
    ]_vars

\* the failing case: initialize_data(force_reprocess=false) has ended on the
\* failed load of a year that is still registered with its old index, and
\* has left years with a source file unvisited
C22_LoadFailureAborts ==
    \E r \in Reqs :
        /\ Returning(r, "init") /\ ~h[r].force
        /\ h[r].exc = "PersistenceError" /\ h[r].vs = NoIndex
        /\ vectorDb[h[r].year] = Corrupt
        /\ vector_stores[h[r].year] \in Indexes
        /\ h[r].todo # {}

\* C23: the citations of a single-year result correspond one to one and in
\* retrieval order to the retrieved passages: citation i has the text of
\* passage i, the source apple_annual_report_<year>.pdf of the queried year,
\* and the page recorded in the metadata of its chunk, whichever source file
\* the year's index was built from.  (Only the text of a
\* passage leaves ask_question, and Citation is built without a page, so the
\* page is never the recorded one.)
C23_CitationsMatchPassages ==
    \A r \in Reqs : (Returning(r, "single") /\ h[r].err = "") =>
        LET docs == similarity_search_with_score(
                        vector_stores[h[r].year], h[r].query, max_chunks_per_query)
        IN  /\ Len(h[r].cited) = Len(docs)
            /\ \A i \in 1..Len(docs),
                  file \in Reports(h[r].year, vector_stores[h[r].year]) :
                  LET passage == Document(file, docs[i][1], h[r].year)
                  IN  /\ h[r].cited[i].text = passage.page_content
                      /\ h[r].cited[i].source = <<"apple_annual_report_", h[r].year, ".pdf">>
                      /\ h[r].cited[i].page = passage.metadata.page

\* the failing case: a result whose citations have text and source of the
\* passages, in order, and no page although the chunks record one
C23_CitationWithoutPage ==
    \E r \in Reqs :
        /\ Returning(r, "single") /\ h[r].err = ""
        /\ Len(h[r].cited) = SmallDoc
        /\ \A i \in DOMAIN h[r].cited :
              /\ h[r].cited[i].text = h[r].citations[i]
              /\ h[r].cited[i].page = None
              /\ \A file \in Reports(h[r].year, vector_stores[h[r].year]) :
                    Document(file, h[r].citations[i], h[r].year).metadata.page \in Nat

\* the keys of the registry when the handler began
RegisteredAtStart(r) == {y \in Years : h[r].reg0[y] # NoIndex}

\* C24: a single-year query that reaches answer generation has invoked the
\* language model exactly once when it returns, whether the call succeeded or
\* failed, and one that fails before generation has not invoked it; an
\* all-years query invokes it at most once per year, only for years that
\* were registered, hence at most n times for n registered years, and
\* exactly once for each year in its result.
C24_OneLlmCallPerYear ==
    \A r \in Reqs :
        /\ \A y \in Years : h[r].llmCalls[y] <= 1
        /\ Returning(r, "single") =>
              /\ \A y \in Years \ {h[r].year} : h[r].llmCalls[y] = 0
              /\ h[r].llmCalls[h[r].year] = (IF h[r].err = "" THEN 1 ELSE 0)
              /\ h[r].llmFailed => h[r].llmCalls[h[r].year] = 1
        /\ h[r].kind = "all" =>
              /\ SumOver(h[r].llmCalls, Years) <= Cardinality(RegisteredAtStart(r))
              /\ \A y \in Years : h[r].llmCalls[y] > 0 => y \in RegisteredAtStart(r)
              /\ h[r].pc = "ret" =>
                    \A y \in Years : h[r].llmCalls[y] = 1 <=> y \in ResultYears(r)

C24_Witness ==
    \E r \in Reqs :
        /\ Returning(r, "single") /\ h[r].llmFailed
        /\ h[r].answer = Fallback
        /\ h[r].llmCalls[h[r].year] = 1
        /\ SumOver(h[r].llmCalls, Years) = 1

ReadOnlyKinds == {"single", "all", "rejected", "stats", "health"}

\* C25: the query and statistics operations (ask_question,
\* ask_question_all_years, process_query, get_summary_stats, health_check)
\* leave the registry as they found it at every step, whether they succeed
\* or fail; a step changes the registry only in the startup loop or in a
\* running initialize_data, and what it changes is the entry of one year,
\* to a whole index: no step removes a year.
C25_RegistryFrame ==
    /\ [](\A r \in Reqs :
            (Running(r) /\ h[r].kind \in ReadOnlyKinds) => vector_stores = h[r].reg0)
    /\ [][vector_stores' # vector_stores =>
            /\ \/ ~StartupDone
               \/ \E r \in Reqs : h[r].kind = "init" /\ Running(r)
            /\ \A r \in Reqs : h[r].kind \notin ReadOnlyKinds
            /\ Cardinality({y \in Years : vector_stores'[y] # vector_stores[y]}) = 1
            /\ \A y \in Years :
                  /\ vector_stores[y] # NoIndex => vector_stores'[y] # NoIndex
                  /\ vector_stores'[y] # vector_stores[y] => vector_stores'[y] \in Indexes
       ]_vars

C25_Witness ==
    \E r \in Reqs :
        /\ h[r].kind = "health" /\ h[r].pc = "ret"
        /\ h[r].stats.available_years = {FirstYear, FirstYear + 1}
        /\ h[r].stats.total_chunks = 2 * SmallDoc
        /\ vector_stores = h[r].reg0

\* scores that are similarities in [0,1]
UnitScores(scores) == \A i \in DOMAIN scores : scores[i] \in 0..Scale

\* what C26 says of one returned confidence c
ChunkCountLimits(n, scores, c) ==
    UnitScores(scores) =>
        /\ c = R(1, 1) =>
              /\ n >= 5 /\ scores # <<>>
              /\ \A i \in DOMAIN scores : scores[i] = Scale
        /\ n < 5 => RLe(c, RMax(R(70 + 6 * n, 100), R(0, 1)))
        /\ (n = 1 /\ scores = <<Scale>>) => c = R(76, 100)

\* C26: for similarities in [0,1] the confidence, of _calculate_confidence
\* and of calculate_confidence_score, is 1.0 only when num_chunks is at least
\* 5 and every similarity is 1.0; with num_chunks n < 5 it is at most
\* 0.7 + 0.06 * n, and a single passage of similarity 1.0 gives 0.76.
C26_SinglePassageNotMaximal ==
    /\ "qa" \in scoreOut.done =>
          ChunkCountLimits(scoreIn.num_chunks, scoreIn.similarity_scores, scoreOut.qa)
    /\ "util" \in scoreOut.done =>
          ChunkCountLimits(scoreIn.num_chunks, scoreIn.similarity_scores, scoreOut.util)

C26_Witness ==
    /\ scoreOut.done = {"qa", "util"}
    /\ scoreIn.num_chunks = 1
    /\ scoreIn.similarity_scores = <<Scale>>
    /\ scoreOut.qa = R(76, 100) /\ scoreOut.util = R(76, 100)
    /\ scoreOut.qa # R(1, 1)

\* C27: the text handed to retrieval and to the language model is the
\* sanitized query: it has 3 to 1000 characters, none of them one of
\* < > " ', its first and its last character are not whitespace, and it is
\* a stretch of the raw text without those four characters; a raw query
\* that the request model's validator lets pass but whose sanitized form is
\* shorter than 3 characters ends in ValidationError and is never dispatched.
C27_DispatchedQueryIsSanitized ==
    \A r \in Reqs :
        /\ Dispatched(h[r]) =>
              LET text == h[r].text
                  kept == SelectSeq(h[r].raw, NotDangerous)
              IN  /\ Len(text) >= 3 /\ Len(text) <= max_query_length
                  /\ \A i \in DOMAIN text : text[i] \notin Dangerous
                  /\ ~IsSpace(text[1]) /\ ~IsSpace(text[Len(text)])
                  /\ \E i \in 1..(Len(kept) - Len(text) + 1) :
                        text = SubSeq(kept, i, i + Len(text) - 1)
                  /\ h[r].query = embed_query(text)
        /\ (/\ Running(r)
            /\ ~validate_query_raises(h[r].raw)
            /\ Len(sanitize_query(h[r].raw)) < 3) =>
               /\ h[r].pc = "ret" /\ h[r].err = "ValidationError"
               /\ ~Dispatched(h[r])

C27_Witness ==
    \E r \in Reqs :
        /\ h[r].pc = "ret" /\ h[r].err = "ValidationError"
        /\ h[r].raw = <<39, 60, 34, 62>>
        /\ ~validate_query_raises(h[r].raw)
        /\ ~Dispatched(h[r])

\* C28: when initialize_data has returned successfully, every year that has
\* a source file in the data directory is in the registry, and after
\* force_reprocess=true its entry is the index built in this call from the
\* file as it is now.  (A file without content ends _process_pdf_for_year by
\* a plain return: the call succeeds with the year unregistered, or
\* registered with the index of an earlier content.)
C28_SuccessfulInitCoversEveryFile ==
    \A r \in Reqs : (Returning(r, "init") /\ h[r].err = "") =>
        \A y \in pdf_paths :
            /\ vector_stores[y] # NoIndex
            /\ h[r].force => (y \in h[r].built /\ vector_stores[y] = dataDir[y])

\* the failing case: a forced call has succeeded, one year has a file without
\* content and is still registered with the index loaded at startup, while
\* another year was rebuilt
C28_StaleIndexAfterForcedInit ==
    \E r \in Reqs, y \in pdf_paths :
        /\ Returning(r, "init") /\ h[r].err = "" /\ h[r].force
        /\ dataDir[y] = 0
        /\ y \notin h[r].built
        /\ vector_stores[y] = LargeDoc
        /\ h[r].built # {}

\* C29: every year the /api/years endpoint lists is a key of the registry,
\* so that a single-year query for it does not fail with 'No data available'.
\* (The endpoint lists the years of the files in the data directory, whether
\* or not an index was ever loaded or built for them.)
C29_AdvertisedYearsRegistered ==
    \A r \in Reqs : (h[r].kind = "years" /\ h[r].pc = "ret") =>
        /\ h[r].stats.years \subseteq Registered
        /\ \A y \in h[r].stats.years : has_index(y)

\* the failing case: the endpoint has listed a registered year and one that
\* has a report in the data directory and no entry in the registry
C29_AdvertisedYearUnregistered ==
    \E r \in Reqs, y1, y2 \in Years :
        /\ h[r].kind = "years" /\ h[r].pc = "ret"
        /\ {y1, y2} \subseteq h[r].stats.years
        /\ has_index(y1)
        /\ ~has_index(y2) /\ dataDir[y2] = SmallDoc

\* C30: a .pdf or .txt file of the data directory that get_pdf_paths maps to
\* a year leaves the directory only in a step of delete_file that names it:
\* no upload, cleanup or init-data removes it.  (cleanup_orphaned_files
\* removes every file whose type is not in allowed_file_types, which holds
\* ".pdf" only, so it removes the .txt reports initialize_data ingests.)
C30_CleanupKeepsSourceFiles ==
    [][\A n \in DOMAIN dataDir :
          (IsSourceFile(n) /\ n \notin DOMAIN dataDir') =>
              \E r \in Reqs :
                  /\ h[r].pc = "pending"
                  /\ h'[r].kind = "delete" /\ h'[r].files = {n}]_vars

\* the failing case: cleanup has removed the report of a year whose index
\* init-data had built from it, while an uploaded .pdf was kept
C30_CleanupRemovedIngestedReport ==
    \E r \in Reqs, n \in SampleNames, m \in DOMAIN dataDir :
        /\ h[r].kind = "cleanup" /\ h[r].pc = "ret"
        /\ n \in h[r].files /\ n \notin DOMAIN dataDir
        /\ IsSourceFile(n)
        /\ vector_stores[n.year] = SmallDoc
        /\ m.ext = ".pdf" /\ IsSourceFile(m)

====
